---- MODULE Spec2Model ----
(***************************************************************************)
(* vidscribe: the batch pipeline of processors/playlist.py                 *)
(* (PlaylistProcessor) and the backend selection of core/engine.py         *)
(* (TranscriptionEngine), with utils/validators.py.                        *)
(*                                                                         *)
(* Spec        one batch run of PlaylistProcessor.process_playlist on a    *)
(*             freshly constructed processor: every entry's metadata       *)
(*             lookup, download or transcription may fail, and a           *)
(*             KeyboardInterrupt may be raised at every step of the loop.  *)
(* SpecEngine  construction of a TranscriptionEngine / PlaylistProcessor   *)
(*             followed by calls of transcribe_audio.                      *)
(* SpecTwice   SpecEngine with the constructor called a second time.       *)
(* SpecVideo   calls of TranscriptionEngine.transcribe_video.              *)
(* SpecSave    calls of TranscriptionEngine.save_transcription.            *)
(* SpecFormat  utils/formatters.py: the timestamps and the subtitle files. *)
(* SpecCli     cli.py: the commands transcribe and playlist up to the      *)
(*             constructed engine, and the steps of transcribe.            *)
(* SpecChannel one batch run of PlaylistProcessor.process_channel with     *)
(*             the limit of downloaders/youtube.py get_channel_videos.     *)
(* SpecSinkFault  a batch run whose writer.writerow or csvfile.flush may   *)
(*             raise for any entry.                                        *)
(* SpecAgain   a batch run followed by another on the same processor.      *)
(***************************************************************************)
EXTENDS Integers, Sequences, FiniteSets, TLC

\* ------------------------------------------------------------------ bounds
MaxItems == 3        \* longest enumerated playlist
MaxPrior == 2        \* most record rows already in the destination
MaxCalls == 2        \* most transcribe_audio calls made on one engine
MaxVideoCalls == 2   \* most transcribe_video calls made on one engine
MaxSegments == 2     \* most segments of a transcription result
MaxSaves == 2        \* most save_transcription calls made on one engine
MaxLimit == 2        \* largest --limit given to a channel batch
MaxLaterBatches == 1 \* most batches a processor runs after its first
MaxLaterItems == 1   \* most items of such a later batch

\* ------------------------------------------------------- batch: the inputs
\* What the collaborators do for one playlist entry: metadata lookup fails,
\* download fails, transcription raises, or everything works.
Outcome == {"ok", "info_fail", "dl_fail", "tr_fail"}

\* info['duration'] of an entry, in seconds.
Durations == {0, 2}

\* One enumerated entry.  The duration is only read after a successful
\* transcription, so it is fixed at 0 for the entries that fail earlier.
Item == {it \in [out : Outcome, dur : Durations] : it.out # "ok" => it.dur = 0}

\* transcription_time reported by transcribe_audio (time.time() difference).
TransTime == 1

VARIABLES
    video_urls,   \* the enumeration returned by get_playlist_videos
    keep_audio,   \* PlaylistProcessor.keep_audio
    pc,           \* position of process_playlist / _process_video_list
    i,            \* loop index of "for i, url in enumerate(video_urls, 1)"
    result,       \* value returned by _process_single_video: <<>> is None
    stats,        \* PlaylistProcessor.stats
    csv_exists,   \* whether the destination path exists
    disk,         \* lines of the destination that reached the file
    buffer,       \* lines written to csvfile and not yet flushed
    file_exists,  \* local file_exists of _process_video_list
    prior,        \* the destination's lines when the run started
    audio,        \* indices of the entries whose downloaded audio file exists
    pauses,       \* indices of the entries after which time.sleep(1) ran
    cancelled,    \* where a KeyboardInterrupt was raised, "none" if none was
    summary       \* the tables printed by _print_summary

bvars == <<video_urls, keep_audio, pc, i, result, stats, csv_exists, disk,
           buffer, file_exists, prior, audio, pauses, cancelled, summary>>

\* ------------------------------------------------------ engine: the state
VARIABLES
    is_mac_silicon,     \* module-level platform probe
    mlx_available,      \* module-level: mlx_whisper was imported
    whisper_available,  \* module-level: whisper was imported
    ctor,               \* the constructor called: "engine" or "processor"
    arg_model_size,     \* argument model_size
    arg_use_mlx,        \* argument use_mlx: "None", "True" or "False"
    dir_exists,         \* whether the downloader's output_dir exists
    epc,                \* position of the constructor / of transcribe_audio
    assigned,           \* the attributes of self assigned so far
    e_model_size,       \* self.model_size
    e_use_mlx,          \* self.use_mlx
    model,              \* self.model: "None" or "loaded"
    mlx_model_path,     \* self.mlx_model_path
    warned,             \* "MLX requested but not available" was logged
    error,              \* the exception that left the constructor
    mkdirs,             \* number of directories created
    loads,              \* number of whisper.load_model calls
    path,               \* file-system facts of the audio_path argument
    log                 \* one entry per finished transcribe_audio call

evars == <<is_mac_silicon, mlx_available, whisper_available, ctor,
           arg_model_size, arg_use_mlx, dir_exists, epc, assigned,
           e_model_size, e_use_mlx, model, mlx_model_path, warned, error,
           mkdirs, loads, path, log>>

\* -------------------------------------------- transcribe_video: the state
VARIABLES
    vpc,                \* position of transcribe_video
    video_path,         \* file-system facts of the video_path argument
    v_keep_audio,       \* argument keep_audio of the call
    raising,            \* what leaves the try block: "none" while inside it
    temp_files,         \* calls whose temporary audio file exists
    vlog                \* one entry per finished transcribe_video call

vvars == <<vpc, video_path, v_keep_audio, raising, temp_files, vlog>>

\* ------------------------------------------- SubtitleFormatter: the state
VARIABLES
    fpc,                \* "ready" before a save_as_* call, "saved" after it
    f_result,           \* the transcription result handed to save_as_*
    f_file,             \* the lines of the file at output_path
    f_format,           \* the method called: "srt" or "vtt"
    f_stamp             \* the last format_timestamp_* results, with the input

fvars == <<fpc, f_result, f_file, f_format, f_stamp>>

\* ------------------------------------------ save_transcription: the state
VARIABLES
    spc,                \* position of save_transcription
    s_format,           \* argument format of the call
    parent_exists,      \* whether the directory of output_path exists
    out_file,           \* the file at output_path: "absent", "old",
                        \* "written" by this engine, or "truncated"
    s_before,           \* directory and file as they were when called
    slog                \* one entry per finished save_transcription call

svars == <<spc, s_format, parent_exists, out_file, s_before, slog>>

\* ------------------------------------------------ the commands: the state
VARIABLES
    command,            \* the command run: "transcribe" or "playlist"
    flag,               \* "--use-mlx", "--no-mlx" or "absent"
    t_input,            \* INPUT of transcribe: "url", "video" or "audio"
    t_output,           \* whether --output was given
    tpc,                \* position of the command
    trace,              \* the steps executed, each with its success
    exit_code,          \* exit status of the process, -1 while it runs
    reported            \* an error message was printed

cvars == <<command, flag, t_input, t_output, tpc, trace, exit_code, reported>>

\* ------------------------------------------- process_channel: the state
VARIABLES
    entries,            \* info['entries'] of the channel, in its order
    limit               \* argument limit: given or None, and its value

hvars == <<entries, limit>>

\* ------------------------------------ a second engine: the state
VARIABLES
    earlier             \* what the construction of the first engine gave

dvars == <<earlier>>

\* ------------------------------------------- a failing sink: the state
VARIABLES
    faults              \* the items whose writerow or flush raised

kvars == <<faults>>

\* --------------------------------- one processor, several batches: state
VARIABLES
    runs,               \* the batches this processor has run before this one
    at_start            \* self.stats at the start of the current batch

rvars == <<runs, at_start>>

\* The variables outside the batch, and outside the engine constructor.
xvars == <<vvars, fvars, svars, cvars, hvars, dvars, kvars, rvars>>

\* What the actions of one part leave unchanged.
others_v == <<bvars, evars, fvars, svars, cvars, hvars, dvars, kvars, rvars>>

others_f == <<bvars, evars, vvars, svars, cvars, hvars, dvars, kvars, rvars>>

others_s == <<bvars, evars, vvars, fvars, cvars, hvars, dvars, kvars, rvars>>

\* The commands construct the engine: they leave its variables to it.
others_c == <<bvars, vvars, fvars, svars, hvars, dvars, kvars, rvars>>

vars == <<bvars, evars, xvars>>

\* ------------------------------------------------------- batch: the sink
\* The fieldnames line written by writer.writeheader().
Header == [kind |-> "header", Index |-> 0, Link |-> 0, Length |-> 0,
           Time |-> 0, At |-> 0]

\* A record row.  Link stands for the entry's URL (its place in the
\* enumeration), At for "Processed At": 0 for rows of an earlier run,
\* 1 for rows of this run.
Row(index, link, length, time, at) ==
    [kind |-> "row", Index |-> index, Link |-> link, Length |-> length,
     Time |-> time, At |-> at]

\* Mutant of Record: the index counted from 0.
Record_ZeroBased(index) ==
    Row(index - 1, index, video_urls[index].dur, TransTime, 1)

\* The return value of _process_single_video on success.
Record(index) == Row(index, index, video_urls[index].dur, TransTime, 1)

\* A destination written by an earlier run: the header and h rows.
PriorFile(h) == <<Header>> \o [k \in 1..h |-> Row(k, k, 2, TransTime, 0)]

ZeroStats == [total_videos |-> 0, processed |-> 0, failed |-> 0, skipped |-> 0,
              total_duration |-> 0, total_transcription_time |-> 0]

Playlists == UNION {[1..n -> Item] : n \in 0..MaxItems}

BatchInit ==
    /\ video_urls \in Playlists
    /\ keep_audio \in BOOLEAN
    /\ pc = "start"
    /\ i = 0
    /\ result = <<>>
    /\ stats = ZeroStats
    /\ \/ csv_exists = FALSE /\ disk = <<>>
       \/ csv_exists = TRUE /\ disk = <<>>
       \/ csv_exists = TRUE /\ \E h \in 0..MaxPrior : disk = PriorFile(h)
    /\ buffer = <<>>
    /\ file_exists = FALSE
    /\ prior = disk
    /\ audio = {}
    /\ pauses = {}
    /\ cancelled = "none"
    /\ summary = <<>>

\* The batch variables while only the engine is exercised.
BatchIdle ==
    /\ video_urls = <<>>
    /\ keep_audio = FALSE
    /\ pc = "idle"
    /\ i = 0
    /\ result = <<>>
    /\ stats = ZeroStats
    /\ csv_exists = FALSE
    /\ disk = <<>>
    /\ buffer = <<>>
    /\ file_exists = FALSE
    /\ prior = <<>>
    /\ audio = {}
    /\ pauses = {}
    /\ cancelled = "none"
    /\ summary = <<>>

\* ---------------------------------------------------- batch: the actions
\* Mutant of ProcessPlaylist: an empty enumeration goes on to the summary.
ProcessPlaylist_Summary ==
    /\ pc = "start"
    /\ IF Len(video_urls) = 0
       THEN /\ pc' = "summary"
            /\ stats' = stats
       ELSE /\ pc' = "open"
            /\ stats' = [stats EXCEPT !.total_videos = Len(video_urls)]
    /\ UNCHANGED <<video_urls, keep_audio, i, result, csv_exists, disk, buffer,
                   file_exists, prior, audio, pauses, cancelled, summary>>
    /\ UNCHANGED <<evars, xvars>>

\* process_playlist up to the call of _process_video_list.
ProcessPlaylist ==
    /\ pc = "start"
    /\ IF Len(video_urls) = 0
       THEN /\ pc' = "done"
            /\ stats' = stats
       ELSE /\ pc' = "open"
            /\ stats' = [stats EXCEPT !.total_videos = Len(video_urls)]
    /\ UNCHANGED <<video_urls, keep_audio, i, result, csv_exists, disk, buffer,
                   file_exists, prior, audio, pauses, cancelled, summary>>
    /\ UNCHANGED <<evars, xvars>>

\* Mutant of OpenSink: the destination is always opened in mode "w" and the
\* header always written.
OpenSink_Truncate ==
    /\ pc = "open"
    /\ file_exists' = csv_exists
    /\ csv_exists' = TRUE
    /\ disk' = <<>>
    /\ buffer' = <<Header>>
    /\ pc' = "loop"
    /\ UNCHANGED <<video_urls, keep_audio, i, result, stats, prior, audio,
                   pauses, cancelled, summary>>
    /\ UNCHANGED <<evars, xvars>>

\* Mutant of OpenSink: the header is written to an empty destination too.
OpenSink_HeaderIfEmpty ==
    /\ pc = "open"
    /\ file_exists' = csv_exists
    /\ csv_exists' = TRUE
    /\ disk' = IF csv_exists THEN disk ELSE <<>>
    /\ buffer' = IF csv_exists /\ disk # <<>> THEN <<>> ELSE <<Header>>
    /\ pc' = "loop"
    /\ UNCHANGED <<video_urls, keep_audio, i, result, stats, prior, audio,
                   pauses, cancelled, summary>>
    /\ UNCHANGED <<evars, xvars>>

\* _process_video_list up to the loop: open the destination in mode "a" when
\* it exists and "w" otherwise, and write the header when it did not exist.
OpenSink ==
    /\ pc = "open"
    /\ file_exists' = csv_exists
    /\ csv_exists' = TRUE
    /\ disk' = IF csv_exists THEN disk ELSE <<>>
    /\ buffer' = IF csv_exists THEN <<>> ELSE <<Header>>
    /\ pc' = "loop"
    /\ UNCHANGED <<video_urls, keep_audio, i, result, stats, prior, audio,
                   pauses, cancelled, summary>>
    /\ UNCHANGED <<evars, xvars>>

\* The for statement: take the next entry, or leave the loop and both with
\* blocks (closing the file writes what is buffered).
LoopHead ==
    /\ pc = "loop"
    /\ IF i < Len(video_urls)
       THEN /\ i' = i + 1
            /\ pc' = "info"
            /\ UNCHANGED <<disk, buffer>>
       ELSE /\ i' = i
            /\ pc' = "summary"
            /\ disk' = disk \o buffer
            /\ buffer' = <<>>
    /\ result' = <<>>
    /\ UNCHANGED <<video_urls, keep_audio, stats, csv_exists, file_exists,
                   prior, audio, pauses, cancelled, summary>>
    /\ UNCHANGED <<evars, xvars>>

\* Mutant of GetVideoInfo: an entry without metadata is skipped uncounted.
GetVideoInfo_Skipped ==
    /\ pc = "info"
    /\ IF video_urls[i].out = "info_fail"
       THEN pc' = "advance"
       ELSE pc' = "download"
    /\ result' = <<>>
    /\ UNCHANGED <<video_urls, keep_audio, i, stats, csv_exists, disk, buffer,
                   file_exists, prior, audio, pauses, cancelled, summary>>
    /\ UNCHANGED <<evars, xvars>>

\* _process_single_video: self.downloader.get_video_info(url).
GetVideoInfo ==
    /\ pc = "info"
    /\ IF video_urls[i].out = "info_fail"
       THEN pc' = "tally"
       ELSE pc' = "download"
    /\ result' = <<>>
    /\ UNCHANGED <<video_urls, keep_audio, i, stats, csv_exists, disk, buffer,
                   file_exists, prior, audio, pauses, cancelled, summary>>
    /\ UNCHANGED <<evars, xvars>>

\* _process_single_video: self.downloader.download_video(url).
DownloadVideo ==
    /\ pc = "download"
    /\ IF video_urls[i].out = "dl_fail"
       THEN /\ pc' = "tally"
            /\ audio' = audio
       ELSE /\ pc' = "transcribe"
            /\ audio' = audio \cup {i}
    /\ result' = <<>>
    /\ UNCHANGED <<video_urls, keep_audio, i, stats, csv_exists, disk, buffer,
                   file_exists, prior, pauses, cancelled, summary>>
    /\ UNCHANGED <<evars, xvars>>

\* _process_single_video: self.engine.transcribe_audio(audio_path) and the
\* update of the two cumulative counters; an exception is caught by the
\* function's own handler, which returns None.
TranscribeItem ==
    /\ pc = "transcribe"
    /\ IF video_urls[i].out = "tr_fail"
       THEN /\ pc' = "tally"
            /\ stats' = stats
       ELSE /\ pc' = "cleanup"
            /\ stats' = [stats EXCEPT
                 !.total_duration = @ + video_urls[i].dur,
                 !.total_transcription_time = @ + TransTime]
    /\ result' = <<>>
    /\ UNCHANGED <<video_urls, keep_audio, i, csv_exists, disk, buffer,
                   file_exists, prior, audio, pauses, cancelled, summary>>
    /\ UNCHANGED <<evars, xvars>>

\* _process_single_video: remove the audio file unless it is kept, and
\* return the row.
CleanUp ==
    /\ pc = "cleanup"
    /\ audio' = IF keep_audio THEN audio ELSE audio \ {i}
    /\ result' = <<Record(i)>>
    /\ pc' = "tally"
    /\ UNCHANGED <<video_urls, keep_audio, i, stats, csv_exists, disk, buffer,
                   file_exists, prior, pauses, cancelled, summary>>
    /\ UNCHANGED <<evars, xvars>>

\* "if result: writer.writerow(result)".
WriteRow ==
    /\ pc = "tally"
    /\ result # <<>>
    /\ buffer' = buffer \o result
    /\ pc' = "flush"
    /\ UNCHANGED <<video_urls, keep_audio, i, result, stats, csv_exists, disk,
                   file_exists, prior, audio, pauses, cancelled, summary>>
    /\ UNCHANGED <<evars, xvars>>

\* Mutant of Flush: the row is counted but csvfile.flush() is not called.
Flush_Missing ==
    /\ pc = "flush"
    /\ stats' = [stats EXCEPT !.processed = @ + 1]
    /\ pc' = "advance"
    /\ UNCHANGED <<video_urls, keep_audio, i, result, csv_exists, disk, buffer,
                   file_exists, prior, audio, pauses, cancelled, summary>>
    /\ UNCHANGED <<evars, xvars>>

\* "csvfile.flush(); self.stats['processed'] += 1".  The destination
\* accepts what is written to it: a failing write is not part of Spec.
Flush ==
    /\ pc = "flush"
    /\ disk' = disk \o buffer
    /\ buffer' = <<>>
    /\ stats' = [stats EXCEPT !.processed = @ + 1]
    /\ pc' = "advance"
    /\ UNCHANGED <<video_urls, keep_audio, i, result, csv_exists, file_exists,
                   prior, audio, pauses, cancelled, summary>>
    /\ UNCHANGED <<evars, xvars>>

\* Mutant of CountFailed: a failed entry ends the loop.
CountFailed_Abort ==
    /\ pc = "tally"
    /\ result = <<>>
    /\ stats' = [stats EXCEPT !.failed = @ + 1]
    /\ pc' = "summary"
    /\ disk' = disk \o buffer
    /\ buffer' = <<>>
    /\ UNCHANGED <<video_urls, keep_audio, i, result, csv_exists, file_exists,
                   prior, audio, pauses, cancelled, summary>>
    /\ UNCHANGED <<evars, xvars>>

\* "else: self.stats['failed'] += 1".
CountFailed ==
    /\ pc = "tally"
    /\ result = <<>>
    /\ stats' = [stats EXCEPT !.failed = @ + 1]
    /\ pc' = "advance"
    /\ UNCHANGED <<video_urls, keep_audio, i, result, csv_exists, disk, buffer,
                   file_exists, prior, audio, pauses, cancelled, summary>>
    /\ UNCHANGED <<evars, xvars>>

\* Mutant of Advance: the pause follows the last entry as well.
Advance_AlwaysSleep ==
    /\ pc = "advance"
    /\ pc' = "sleep"
    /\ UNCHANGED <<video_urls, keep_audio, i, result, stats, csv_exists, disk,
                   buffer, file_exists, prior, audio, pauses, cancelled,
                   summary>>
    /\ UNCHANGED <<evars, xvars>>

\* "progress.advance(task)" and the test "if i < len(video_urls)".
Advance ==
    /\ pc = "advance"
    /\ pc' = IF i < Len(video_urls) THEN "sleep" ELSE "loop"
    /\ UNCHANGED <<video_urls, keep_audio, i, result, stats, csv_exists, disk,
                   buffer, file_exists, prior, audio, pauses, cancelled,
                   summary>>
    /\ UNCHANGED <<evars, xvars>>

\* "time.sleep(1)".
Sleep ==
    /\ pc = "sleep"
    /\ pauses' = pauses \cup {i}
    /\ pc' = "loop"
    /\ UNCHANGED <<video_urls, keep_audio, i, result, stats, csv_exists, disk,
                   buffer, file_exists, prior, audio, cancelled, summary>>
    /\ UNCHANGED <<evars, xvars>>

\* The statements of the loop body that the try statement encloses.
InTry == {"info", "download", "transcribe", "cleanup", "tally", "flush"}

\* The statements of the loop body outside the try statement:
\* progress.update, progress.advance and time.sleep.
OutsideTry == {"loop", "advance", "sleep"}

\* Mutant of InterruptInTry: the item interrupted is counted as failed.
InterruptInTry_Counted ==
    /\ pc \in InTry
    /\ cancelled' = pc
    /\ pc' = "summary"
    /\ disk' = disk \o buffer
    /\ buffer' = <<>>
    /\ stats' = [stats EXCEPT !.failed = @ + 1]
    /\ UNCHANGED <<video_urls, keep_audio, i, result, csv_exists,
                   file_exists, prior, audio, pauses, summary>>
    /\ UNCHANGED <<evars, xvars>>

\* A KeyboardInterrupt raised inside the try statement: the statement it
\* interrupts does not take effect, "except KeyboardInterrupt" breaks out of
\* the loop, and leaving the with blocks closes the file.
InterruptInTry ==
    /\ pc \in InTry
    /\ cancelled' = pc
    /\ pc' = "summary"
    /\ disk' = disk \o buffer
    /\ buffer' = <<>>
    /\ UNCHANGED <<video_urls, keep_audio, i, result, stats, csv_exists,
                   file_exists, prior, audio, pauses, summary>>
    /\ UNCHANGED <<evars, xvars>>

\* A KeyboardInterrupt raised in the loop body outside the try statement:
\* it leaves _process_video_list (the with blocks close the file) and
\* process_playlist as an exception.
InterruptOutsideTry ==
    /\ pc \in OutsideTry
    /\ pc = "loop" => i < Len(video_urls)
    /\ cancelled' = pc
    /\ pc' = "raised"
    /\ disk' = disk \o buffer
    /\ buffer' = <<>>
    /\ UNCHANGED <<video_urls, keep_audio, i, result, stats, csv_exists,
                   file_exists, prior, audio, pauses, summary>>
    /\ UNCHANGED <<evars, xvars>>

\* Mutant of SummaryTable: the speed row depends on the time alone.
SummaryTable_SpeedByTime ==
    [total_videos |-> stats.total_videos,
     processed |-> stats.processed,
     failed |-> stats.failed,
     duration_row |-> stats.total_duration > 0,
     time_row |-> stats.total_transcription_time > 0,
     speed_row |-> stats.total_transcription_time > 0,
     speed |-> <<stats.total_duration, stats.total_transcription_time>>]

\* _print_summary: the rows of the table.
SummaryTable ==
    [total_videos |-> stats.total_videos,
     processed |-> stats.processed,
     failed |-> stats.failed,
     duration_row |-> stats.total_duration > 0,
     time_row |-> stats.total_transcription_time > 0,
     speed_row |-> stats.total_transcription_time > 0
                   /\ stats.total_duration > 0,
     speed |-> <<stats.total_duration, stats.total_transcription_time>>]

\* process_playlist: self._print_summary() and return.
PrintSummary ==
    /\ pc = "summary"
    /\ summary' = Append(summary, SummaryTable)
    /\ pc' = "done"
    /\ UNCHANGED <<video_urls, keep_audio, i, result, stats, csv_exists, disk,
                   buffer, file_exists, prior, audio, pauses, cancelled>>
    /\ UNCHANGED <<evars, xvars>>

\* ------------------------------------------------- batch: derived notions
N == Len(video_urls)

IsRow(l) == l.kind = "row"

IsHeader(l) == l.kind = "header"

\* The file as a reader sees it once everything written is flushed.
Sink == disk \o buffer

\* The record rows this run appended: what lies beyond the lines the
\* destination held when the run started.
RunRows(lines) == SelectSeq(SubSeq(lines, Len(prior) + 1, Len(lines)), IsRow)

\* The positions the try statement was interrupted at before writerow ran.
BeforeWrite == {"info", "download", "transcribe", "cleanup", "tally"}

\* The file is closed: _process_video_list was left.
Closed == pc \in {"summary", "done", "raised"} /\ N > 0

\* The run went through all of its entries and returned.
Completed == pc = "done" /\ cancelled = "none" /\ N > 0

\* Entry j went through "if result:" with a row: its processing is over (or
\* was cancelled after writerow) and its outcome was success.
Succeeded(j) ==
    /\ video_urls[j].out = "ok"
    /\ \/ j < i
       \/ j = i /\ pc \in {"flush", "advance", "sleep", "loop"}
       \/ j = i /\ Closed /\ cancelled \notin BeforeWrite

AcquisitionFailure == {"info_fail", "dl_fail"}

\* Acquisition fails for entry k and for no other, and no entry fails
\* otherwise.
OnlyFailure(k) ==
    /\ k \in 1..N
    /\ video_urls[k].out \in AcquisitionFailure
    /\ \A j \in 1..N : j # k => video_urls[j].out = "ok"

\* The rows of the entries other than k, in enumeration order.
RECURSIVE RecordsExcept(_, _)
RecordsExcept(k, n) ==
    IF n = 0 THEN <<>>
    ELSE IF n = k THEN RecordsExcept(k, n - 1)
    ELSE Append(RecordsExcept(k, n - 1), Record(n))

\* ------------------------------------------------------------ the claims
\* C1: in a completed batch of N entries on a fresh processor in which
\* acquisition fails for exactly one entry k and every other entry
\* succeeds, every entry was taken (also those after k), the sink gained
\* exactly the N-1 rows of the other entries, failed = 1 and
\* processed = N-1.
C1_OneFailureIsIsolated ==
    \A k \in 1..N :
        (Completed /\ OnlyFailure(k)) =>
            /\ i = N
            /\ RunRows(disk) = RecordsExcept(k, N)
            /\ Len(RunRows(disk)) = N - 1
            /\ stats.failed = 1
            /\ stats.processed = N - 1

C1_Witness ==
    /\ Completed
    /\ N = 3
    /\ OnlyFailure(2)
    /\ Len(RunRows(disk)) = 2
    /\ stats.failed = 1

\* C2: whenever the loop is at or past the acquisition of entry i, the row
\* of every earlier entry that succeeded has reached the file (it is
\* flushed, not merely buffered); so whatever point the process stops at,
\* the file holds the rows of all entries that succeeded before the one in
\* flight.
C2_FlushedBeforeNextItem ==
    \A j \in 1..N :
        (j < i /\ video_urls[j].out = "ok") =>
            \E q \in 1..Len(RunRows(disk)) : RunRows(disk)[q] = Record(j)

C2_Witness ==
    /\ pc = "info"
    /\ i = 2
    /\ video_urls[1].out = "ok"
    /\ RunRows(disk) = <<Record(1)>>
    /\ buffer = <<>>

\* C3: once the run has closed a destination that held the header and H
\* rows, the file starts with those lines unchanged, holds exactly one
\* header line and H + (number of entries that succeeded) rows; once it has
\* closed a destination that was absent, the file is the header followed
\* by the rows of the entries that succeeded.  In a run that was not
\* cancelled the number of rows added is the processed counter.
C3_AppendKeepsPriorRows ==
    Closed =>
        LET ok == {j \in 1..N : Succeeded(j)}
            headers == SelectSeq(disk, IsHeader)
            rows == SelectSeq(disk, IsRow)
        IN  /\ (file_exists /\ prior # <<>>) =>
                /\ Len(disk) >= Len(prior)
                /\ \A q \in 1..Len(prior) : disk[q] = prior[q]
                /\ Len(headers) = 1
                /\ Len(rows) = (Len(prior) - 1) + Cardinality(ok)
            /\ ~file_exists =>
                /\ disk # <<>>
                /\ disk[1] = Header
                /\ Len(headers) = 1
                /\ Len(rows) = Cardinality(ok)
                /\ Len(disk) = 1 + Cardinality(ok)
            /\ cancelled = "none" =>
                Len(RunRows(disk)) = stats.processed

C3_Witness ==
    /\ Completed
    /\ file_exists
    /\ prior = PriorFile(2)
    /\ stats.processed = 2
    /\ stats.failed = 1
    /\ Len(disk) = 5

C3_WitnessAbsent ==
    /\ Completed
    /\ ~file_exists
    /\ stats.processed = 2
    /\ Len(disk) = 3

\* C4 (as claimed): a KeyboardInterrupt raised anywhere in the loop after
\* an entry was taken stops the loop, keeps the rows written so far, lets
\* process_playlist print the summary and return normally.
C4_CancelEndsWithSummary ==
    (cancelled # "none" /\ i >= 1) =>
        /\ pc \in {"summary", "done"}
        /\ pc = "done" => Len(summary) = 1
        /\ \A j \in 1..N : Succeeded(j) =>
              \E q \in 1..Len(RunRows(disk)) : RunRows(disk)[q] = Record(j)

\* C5: in every state of a run the rows it wrote so far have strictly
\* increasing Index, each is the row of the entry at that position of the
\* enumeration and that entry succeeded (a failed entry has no row), and
\* every entry that succeeded has a row (exactly one, the indices being
\* strictly increasing).
C5_OneRowPerSuccessInOrder ==
    LET rows == RunRows(Sink)
    IN  /\ \A p, q \in 1..Len(rows) : p < q => rows[p].Index < rows[q].Index
        /\ \A p \in 1..Len(rows) :
              /\ rows[p].Index \in 1..N
              /\ rows[p] = Record(rows[p].Index)
              /\ video_urls[rows[p].Index].out = "ok"
        /\ \A j \in 1..N : Succeeded(j) =>
              \E p \in 1..Len(rows) : rows[p].Index = j
        /\ Completed =>
              {rows[p].Index : p \in 1..Len(rows)}
                  = {j \in 1..N : video_urls[j].out = "ok"}

C5_Witness ==
    /\ Completed
    /\ N = 3
    /\ video_urls[1].out = "ok"
    /\ video_urls[2].out # "ok"
    /\ video_urls[3].out = "ok"
    /\ RunRows(disk) = <<Record(1), Record(3)>>

\* C6 (as claimed): every run that enumerated at least one entry ends in
\* Done after Summarizing: once process_playlist is left, the summary with
\* the processed and failed counters has been printed, exactly once.
C6_EveryRunEndsWithSummary ==
    (N > 0 /\ pc \in {"done", "raised"}) =>
        /\ pc = "done"
        /\ Len(summary) = 1
        /\ summary[1].processed = stats.processed
        /\ summary[1].failed = stats.failed

\* The steps of an item that wait for the acquisition or the inference:
\* get_video_info, download_video and transcribe_audio.
InFlight == {"info", "download", "transcribe"}

\* C20 as stated: after a KeyboardInterrupt raised while an acquisition or
\* inference call of item i was in flight, the item was finished all the
\* same: it is counted as processed or as failed.
C20_InFlightItemCompletes ==
    cancelled \in InFlight => stats.processed + stats.failed = i

\* C20 amended: a KeyboardInterrupt raised while an acquisition or inference
\* call of item i is in flight abandons the item and stops the batch at
\* once: the loop is left for the summary, the item is counted neither as
\* processed nor as failed, no row is written for it, the rows of the items
\* before it are in the closed destination, and the summary is printed.
C20_InFlightItemAbandoned ==
    cancelled \in InFlight =>
        /\ pc \in {"summary", "done"}
        /\ stats.processed + stats.failed = i - 1
        /\ buffer = <<>>
        /\ Len(RunRows(disk)) = stats.processed
        /\ \A q \in 1..Len(RunRows(disk)) : RunRows(disk)[q].Index < i
        /\ pc = "done" =>
              (Len(summary) = 1 /\ summary[1].processed = stats.processed)

C20_Witness ==
    /\ cancelled = "transcribe"
    /\ pc = "done"
    /\ i = 2
    /\ video_urls[2].out = "ok"
    /\ stats.processed = 1
    /\ Len(RunRows(disk)) = 1

\* The positions at which no item is in progress after its download: the
\* next item is about to start or has not downloaded yet, or the batch has
\* ended.
BetweenDownloads == {"loop", "info", "download", "summary", "done"}

\* C21: in a run that is not cancelled and does not keep the audio, no
\* downloaded audio file exists once the item it belongs to is over (the
\* next item starts or the batch ends), whether the transcription of the item
\* succeeded or failed, and at most one downloaded audio file exists at any
\* time.
C21_AudioDeletedAfterEveryItem ==
    (~keep_audio /\ cancelled = "none") =>
        /\ pc \in BetweenDownloads => audio = {}
        /\ Cardinality(audio) <= 1

\* C24 as stated: a batch whose enumeration yields no item ends without
\* error, presents a summary of zero items, and processes no item.
C24_EmptyBatchPresentsZeroSummary ==
    (pc = "done" /\ N = 0) =>
        /\ Len(summary) = 1
        /\ summary[1].total_videos = 0
        /\ summary[1].processed = 0
        /\ summary[1].failed = 0
        /\ i = 0

\* C24 amended: a batch whose enumeration yields no item ends without error
\* and without a summary: no item is processed, no counter changes, nothing
\* is downloaded and the destination is left as it was.
C24_EmptyBatchEndsSilently ==
    (N = 0 /\ pc # "start") =>
        /\ pc = "done"
        /\ cancelled = "none"
        /\ summary = <<>>
        /\ i = 0
        /\ stats = ZeroStats
        /\ audio = {}
        /\ disk = prior
        /\ buffer = <<>>

C24_Witness ==
    /\ N = 0
    /\ pc = "done"
    /\ summary = <<>>
    /\ ~csv_exists

\* C25: the pause comes after every entry but the last, after a failed
\* entry as after a successful one: the pause after entry j precedes the
\* start of entry j + 1, no pause follows entry N, and a run that was not
\* interrupted has paused N - 1 times.
C25_PauseBetweenItems ==
    /\ pauses \subseteq 1..(N - 1)
    /\ \A j \in pauses : j <= i
    /\ \A j \in 1..(i - 1) : j \in pauses
    /\ Completed => Cardinality(pauses) = N - 1

C25_Witness ==
    /\ Completed
    /\ N = 3
    /\ video_urls[1].out # "ok"
    /\ video_urls[2].out = "ok"
    /\ pauses = {1, 2}

\* C26 as stated: the summary shows the speed ratio exactly when the
\* cumulative inference time is greater than zero.
C26_SpeedShownIffTimePositive ==
    (pc = "done" /\ Len(summary) = 1) =>
        (summary[1].speed_row <=> stats.total_transcription_time > 0)

\* C26 amended: the summary shows the speed ratio, cumulative duration over
\* cumulative inference time, exactly when both the cumulative inference
\* time and the cumulative duration are greater than zero.
C26_SpeedShownIffBothPositive ==
    (pc = "done" /\ Len(summary) = 1) =>
        /\ summary[1].speed_row <=>
              (stats.total_transcription_time > 0 /\ stats.total_duration > 0)
        /\ summary[1].speed_row =>
              summary[1].speed =
                  <<stats.total_duration, stats.total_transcription_time>>

C26_Witness ==
    /\ pc = "done"
    /\ Len(summary) = 1
    /\ stats.total_transcription_time > 0
    /\ stats.total_duration = 0
    /\ ~summary[1].speed_row

\* C27: on a new processor processed + failed never exceeds the number of
\* entries whose processing has started, every entry whose pass through the
\* loop body is over is counted once, and at the end of a run that was not
\* interrupted processed + failed = total_videos = N.
C27_EveryItemCountedOnce ==
    /\ stats.processed + stats.failed <= i
    /\ (cancelled = "none" /\ pc \in {"advance", "sleep", "loop"}) =>
          stats.processed + stats.failed = i
    /\ Completed =>
          /\ stats.processed + stats.failed = stats.total_videos
          /\ stats.total_videos = N

C27_Witness ==
    /\ Completed
    /\ N = 3
    /\ stats.processed = 2
    /\ stats.failed = 1

\* The sums of the Video Length and of the Transcription Time fields.
RECURSIVE SumLength(_)
SumLength(rows) ==
    IF rows = <<>> THEN 0 ELSE Head(rows).Length + SumLength(Tail(rows))

RECURSIVE SumTime(_)
SumTime(rows) ==
    IF rows = <<>> THEN 0 ELSE Head(rows).Time + SumTime(Tail(rows))

\* C28: at the end of a batch on a new processor, completed or cancelled,
\* processed is the number of rows this run appended to the sink, and the
\* cumulative duration and inference time are the sums of the Video Length
\* and Transcription Time fields of exactly those rows.
C28_CountersMatchAppendedRows ==
    Closed =>
        /\ stats.processed = Len(RunRows(disk))
        /\ stats.total_duration = SumLength(RunRows(disk))
        /\ stats.total_transcription_time = SumTime(RunRows(disk))

\* The sink is open or was closed: line 130 has sampled csv_path.exists().
Opened == N > 0 /\ pc \notin {"start", "open", "idle"}

\* C30: the header is written exactly when the destination did not exist at
\* the start of the run: this run wrote one header line, first, when the
\* path was absent and none when it existed, so that a destination that
\* existed and was empty holds the rows of the run and no header line.
C30_HeaderIffDestinationAbsent ==
    Opened =>
        LET written == SubSeq(Sink, Len(prior) + 1, Len(Sink))
            headers == SelectSeq(written, IsHeader)
        IN  /\ ~file_exists => (Len(headers) = 1 /\ written[1] = Header)
            /\ file_exists => headers = <<>>
            /\ (file_exists /\ prior = <<>>) =>
                  /\ SelectSeq(Sink, IsHeader) = <<>>
                  /\ Sink = RunRows(Sink)

C30_Witness ==
    /\ Completed
    /\ file_exists
    /\ prior = <<>>
    /\ Len(disk) = 2
    /\ \A q \in 1..Len(disk) : IsRow(disk[q])

\* ---------------------------------------------------- engine: the inputs
SUPPORTED_MODELS == {"tiny", "base", "small", "medium", "large"}

MLX_MODEL_MAP ==
    [m \in SUPPORTED_MODELS |->
        CASE m = "tiny" -> "mlx-community/whisper-tiny"
          [] m = "base" -> "mlx-community/whisper-base"
          [] m = "small" -> "mlx-community/whisper-small"
          [] m = "medium" -> "mlx-community/whisper-medium"
          [] m = "large" -> "mlx-community/whisper-large-v3"]

\* The model sizes a caller may pass: the supported ones and one that is not.
ModelSizes == SUPPORTED_MODELS \cup {"huge"}

\* Optional[bool].
UseMlxArgs == {"None", "True", "False"}

\* What the file system says about a path.
Paths == {p \in [exists : BOOLEAN, is_file : BOOLEAN, readable : BOOLEAN] :
            ~p.exists => (~p.is_file /\ ~p.readable)}

NoPath == [exists |-> FALSE, is_file |-> FALSE, readable |-> FALSE]

\* The module-level probes: mlx_whisper is only imported on Apple Silicon.
EngineInit ==
    /\ is_mac_silicon \in BOOLEAN
    /\ mlx_available \in BOOLEAN
    /\ mlx_available => is_mac_silicon
    /\ whisper_available \in BOOLEAN
    /\ ctor \in {"engine", "processor"}
    /\ arg_model_size \in ModelSizes
    /\ arg_use_mlx \in UseMlxArgs
    /\ dir_exists \in BOOLEAN
    /\ epc = IF ctor = "processor" THEN "p_init" ELSE "init"
    /\ assigned = {}
    /\ e_model_size = "unset"
    /\ e_use_mlx = FALSE
    /\ model = "None"
    /\ mlx_model_path = "unset"
    /\ warned = FALSE
    /\ error = "none"
    /\ mkdirs = 0
    /\ loads = 0
    /\ path = NoPath
    /\ log = <<>>

\* The engine variables while only the batch is exercised: the processor of
\* the batch was constructed with the defaults on a machine with whisper.
EngineIdle ==
    /\ is_mac_silicon = FALSE
    /\ mlx_available = FALSE
    /\ whisper_available = TRUE
    /\ ctor = "processor"
    /\ arg_model_size = "base"
    /\ arg_use_mlx = "None"
    /\ dir_exists = TRUE
    /\ epc = "idle"
    /\ assigned = {"model_size", "device", "model", "use_mlx"}
    /\ e_model_size = "base"
    /\ e_use_mlx = FALSE
    /\ model = "loaded"
    /\ mlx_model_path = "unset"
    /\ warned = FALSE
    /\ error = "none"
    /\ mkdirs = 0
    /\ loads = 1
    /\ path = NoPath
    /\ log = <<>>

\* --------------------------------------------------- engine: the actions
\* PlaylistProcessor.__init__ up to the construction of the engine:
\* YouTubeDownloader.__init__ creates output_dir when it is missing.
ProcessorInit ==
    /\ epc = "p_init"
    /\ mkdirs' = IF dir_exists THEN mkdirs ELSE mkdirs + 1
    /\ dir_exists' = TRUE
    /\ epc' = "init"
    /\ UNCHANGED <<is_mac_silicon, mlx_available, whisper_available, ctor,
                   arg_model_size, arg_use_mlx, assigned, e_model_size,
                   e_use_mlx, model, mlx_model_path, warned, error, loads,
                   path, log>>
    /\ UNCHANGED <<bvars, xvars>>

\* TranscriptionEngine.__init__: the model size check and the first three
\* assignments.
ValidateModelSize ==
    /\ epc = "init"
    /\ IF arg_model_size \notin SUPPORTED_MODELS
       THEN /\ error' = "ValueError"
            /\ epc' = "failed"
            /\ UNCHANGED <<assigned, e_model_size>>
       ELSE /\ e_model_size' = arg_model_size
            /\ assigned' = assigned \cup {"model_size", "device", "model"}
            /\ epc' = "resolve"
            /\ error' = error
    /\ UNCHANGED <<is_mac_silicon, mlx_available, whisper_available, ctor,
                   arg_model_size, arg_use_mlx, dir_exists, e_use_mlx, model,
                   mlx_model_path, warned, mkdirs, loads, path, log>>
    /\ UNCHANGED <<bvars, xvars>>

\* Mutant of ResolveUseMlx: a forced preference is taken as given.
ResolveUseMlx_Forced(use_mlx) ==
    IF use_mlx = "None"
    THEN mlx_available /\ is_mac_silicon
    ELSE use_mlx = "True"

\* The value of self.use_mlx after "Determine which backend to use" and
\* the fallback that follows it.
ResolveUseMlx(use_mlx) ==
    LET first == IF use_mlx = "None"
                 THEN mlx_available /\ is_mac_silicon
                 ELSE use_mlx = "True" /\ mlx_available
    IN  IF use_mlx = "True" /\ ~mlx_available THEN FALSE ELSE first

\* TranscriptionEngine.__init__: the backend resolution and the warning.
ResolveBackend ==
    /\ epc = "resolve"
    /\ e_use_mlx' = ResolveUseMlx(arg_use_mlx)
    /\ warned' = (arg_use_mlx = "True" /\ ~mlx_available)
    /\ assigned' = assigned \cup {"use_mlx"}
    /\ epc' = "check"
    /\ UNCHANGED <<is_mac_silicon, mlx_available, whisper_available, ctor,
                   arg_model_size, arg_use_mlx, dir_exists, e_model_size,
                   model, mlx_model_path, error, mkdirs, loads, path, log>>
    /\ UNCHANGED <<bvars, xvars>>

\* Mutant of CheckBackend: the availability test is missing.
CheckBackend_Missing ==
    /\ epc = "check"
    /\ epc' = "load"
    /\ UNCHANGED <<is_mac_silicon, mlx_available, whisper_available, ctor,
                   arg_model_size, arg_use_mlx, dir_exists, assigned,
                   e_model_size, e_use_mlx, model, mlx_model_path, warned,
                   error, mkdirs, loads, path, log>>
    /\ UNCHANGED <<bvars, xvars>>

\* TranscriptionEngine.__init__: "Ensure we have at least one backend".
CheckBackend ==
    /\ epc = "check"
    /\ IF ~e_use_mlx /\ ~whisper_available
       THEN /\ error' = "NoBackend"
            /\ epc' = "failed"
       ELSE /\ error' = error
            /\ epc' = "load"
    /\ UNCHANGED <<is_mac_silicon, mlx_available, whisper_available, ctor,
                   arg_model_size, arg_use_mlx, dir_exists, assigned,
                   e_model_size, e_use_mlx, model, mlx_model_path, warned,
                   mkdirs, loads, path, log>>
    /\ UNCHANGED <<bvars, xvars>>

\* _load_model: the MLX backend only records the repository of the model,
\* the generic backend loads the model, which may fail.
LoadModel ==
    /\ epc = "load"
    /\ IF e_use_mlx
       THEN /\ mlx_model_path' = MLX_MODEL_MAP[e_model_size]
            /\ assigned' = assigned \cup {"mlx_model_path"}
            /\ epc' = "ready"
            /\ UNCHANGED <<model, loads, error>>
       ELSE /\ loads' = loads + 1
            /\ \/ /\ model' = "loaded"
                  /\ epc' = "ready"
                  /\ error' = error
               \/ /\ model' = model
                  /\ epc' = "failed"
                  /\ error' = "LoadFailed"
            /\ UNCHANGED <<mlx_model_path, assigned>>
    /\ UNCHANGED <<is_mac_silicon, mlx_available, whisper_available, ctor,
                   arg_model_size, arg_use_mlx, dir_exists, e_model_size,
                   e_use_mlx, warned, mkdirs, path, log>>
    /\ UNCHANGED <<bvars, xvars>>

\* Mutant of validate_file_path: readability is tested before is_file.
validate_file_path_Reordered(p) ==
    IF ~p.exists THEN "FileNotFoundError"
    ELSE IF ~p.readable THEN "PermissionError"
    ELSE IF ~p.is_file THEN "ValueError"
    ELSE "none"

\* validate_file_path: the exception it raises, "none" when it returns.
validate_file_path(p) ==
    IF ~p.exists THEN "FileNotFoundError"
    ELSE IF ~p.is_file THEN "ValueError"
    ELSE IF ~p.readable THEN "PermissionError"
    ELSE "none"

\* The identifier transcribe_audio logs and reports.
Backend == IF e_use_mlx THEN "MLX" ELSE "Whisper"

\* transcribe_audio up to the try statement: validate_file_path(audio_path).
\* An exception leaves the call at once; the engine stays usable.
TranscribeAudioValidate ==
    /\ epc = "ready"
    /\ Len(log) < MaxCalls
    /\ \E p \in Paths :
         /\ path' = p
         /\ IF validate_file_path(p) # "none"
            THEN /\ log' = Append(log, [path |-> p,
                                        error |-> validate_file_path(p),
                                        invoked |-> "none",
                                        backend |-> "none",
                                        cause |-> {},
                                        message |-> {}])
                 /\ epc' = "ready"
            ELSE /\ log' = log
                 /\ epc' = "infer"
    /\ UNCHANGED <<is_mac_silicon, mlx_available, whisper_available, ctor,
                   arg_model_size, arg_use_mlx, dir_exists, assigned,
                   e_model_size, e_use_mlx, model, mlx_model_path, warned,
                   error, mkdirs, loads>>
    /\ UNCHANGED <<bvars, xvars>>

\* Messages are sets of phrases; a message contains a text when the phrases
\* of the text are among its phrases.  Every backend message has the phrase
\* "detail", which stands for what the backend says about this failure.
Prefix == "Failed to transcribe audio"

\* The remediation text for authentication failures.
auth_msg == {"Authentication failed", "HF_TOKEN", "HUGGINGFACE_TOKEN"}

\* The remediation text for a missing model repository.
repo_msg == {"Model repository not found", "HF_TOKEN"}

\* The messages a failing backend may raise: plain, with one of the phrases
\* the handler looks for, and with phrases of both kinds.
BackendMessages ==
    {{"detail"}, {"detail", "401"}, {"detail", "Authorization"},
     {"detail", "credentials"}, {"detail", "Repository Not Found"},
     {"detail", "credentials", "Repository Not Found"}}

\* Mutant of FailureMessage: the missing repository is looked for first.
FailureMessage_RepoFirst(error_msg) ==
    IF "Repository Not Found" \in error_msg
    THEN {Prefix} \cup repo_msg
    ELSE IF "401" \in error_msg \/ "Authorization" \in error_msg
          \/ "credentials" \in error_msg
    THEN {Prefix} \cup auth_msg
    ELSE {Prefix} \cup error_msg

\* Mutant of FailureMessage: every failure is re-raised generically.
FailureMessage_Generic(error_msg) ==
    {Prefix} \cup error_msg

\* transcribe_audio, except Exception: the message of the RuntimeError raised
\* for the backend message error_msg.
FailureMessage(error_msg) ==
    IF "401" \in error_msg \/ "Authorization" \in error_msg
          \/ "credentials" \in error_msg
    THEN {Prefix} \cup auth_msg
    ELSE IF "Repository Not Found" \in error_msg
    THEN {Prefix} \cup repo_msg
    ELSE {Prefix} \cup error_msg

\* Mutant of TranscribeAudioInfer: the backend is detected again at the call
\* instead of taken from self.use_mlx.
TranscribeAudioInfer_Redetect ==
    /\ epc = "infer"
    /\ \/ log' = Append(log, [path |-> path,
                              error |-> "none",
                              invoked |-> IF mlx_available /\ is_mac_silicon
                                          THEN "mlx_whisper" ELSE "whisper",
                              backend |-> IF mlx_available /\ is_mac_silicon
                                          THEN "MLX" ELSE "Whisper",
                              cause |-> {},
                              message |-> {}])
       \/ \E error_msg \in BackendMessages :
            log' = Append(log, [path |-> path,
                                error |-> "RuntimeError",
                                invoked |-> IF mlx_available /\ is_mac_silicon
                                            THEN "mlx_whisper" ELSE "whisper",
                                backend |-> "none",
                                cause |-> error_msg,
                                message |-> FailureMessage(error_msg)])
    /\ epc' = "ready"
    /\ UNCHANGED <<is_mac_silicon, mlx_available, whisper_available, ctor,
                   arg_model_size, arg_use_mlx, dir_exists, assigned,
                   e_model_size, e_use_mlx, model, mlx_model_path, warned,
                   error, mkdirs, loads, path>>
    /\ UNCHANGED <<bvars, xvars>>

\* transcribe_audio: the call of the backend selected at construction, which
\* returns a result or raises; a result gets the backend identifier, and an
\* exception is re-raised as RuntimeError with the message FailureMessage.
TranscribeAudioInfer ==
    /\ epc = "infer"
    /\ \/ log' = Append(log, [path |-> path,
                              error |-> "none",
                              invoked |-> IF e_use_mlx THEN "mlx_whisper"
                                          ELSE "whisper",
                              backend |-> Backend,
                              cause |-> {},
                              message |-> {}])
       \/ \E error_msg \in BackendMessages :
            log' = Append(log, [path |-> path,
                                error |-> "RuntimeError",
                                invoked |-> IF e_use_mlx THEN "mlx_whisper"
                                            ELSE "whisper",
                                backend |-> "none",
                                cause |-> error_msg,
                                message |-> FailureMessage(error_msg)])
    /\ epc' = "ready"
    /\ UNCHANGED <<is_mac_silicon, mlx_available, whisper_available, ctor,
                   arg_model_size, arg_use_mlx, dir_exists, assigned,
                   e_model_size, e_use_mlx, model, mlx_model_path, warned,
                   error, mkdirs, loads, path>>
    /\ UNCHANGED <<bvars, xvars>>

\* ------------------------------------------------- the claims (engine)
\* The accelerated-backend capability: Apple Silicon with mlx_whisper.
Capability == is_mac_silicon /\ mlx_available

\* C7: once the constructor has resolved the backend, auto and force-on
\* select the accelerated backend exactly when the capability is present,
\* force-off selects the generic backend whatever the capability, and the
\* warning is logged exactly for force-on without the capability; an engine
\* that is ready is set up for the backend selected: the repository of the
\* MLX model and no loaded model, or the loaded whisper model.
C7_ResolutionTable ==
    "use_mlx" \in assigned =>
        /\ (arg_use_mlx = "None" /\ Capability) => e_use_mlx
        /\ (arg_use_mlx = "None" /\ ~Capability) => ~e_use_mlx
        /\ (arg_use_mlx = "True" /\ Capability) => e_use_mlx
        /\ (arg_use_mlx = "True" /\ ~Capability) => (~e_use_mlx /\ warned)
        /\ arg_use_mlx = "False" => ~e_use_mlx
        /\ warned => (arg_use_mlx = "True" /\ ~Capability)
        /\ (epc = "ready" /\ e_use_mlx) =>
              (mlx_model_path = MLX_MODEL_MAP[e_model_size] /\ model = "None")
        /\ (epc = "ready" /\ ~e_use_mlx) =>
              (mlx_model_path = "unset" /\ model = "loaded")

C7_Witness ==
    /\ epc = "ready"
    /\ arg_use_mlx = "True"
    /\ ~Capability
    /\ ~e_use_mlx
    /\ warned
    /\ model = "loaded"

\* C8: when the resolution ended on the generic backend and whisper is not
\* available, the constructor fails with the no-backend error without having
\* loaded a model or called a backend; an engine that was constructed has
\* its backend available (the generic one with its model loaded), and so
\* has every backend call made.
C8_FailFastWithoutBackend ==
    /\ ("use_mlx" \in assigned /\ ~e_use_mlx /\ ~whisper_available
            /\ epc # "check") =>
          /\ epc = "failed"
          /\ error = "NoBackend"
          /\ loads = 0
          /\ model = "None"
          /\ log = <<>>
    /\ epc \in {"ready", "infer"} =>
          \/ e_use_mlx /\ mlx_available
          \/ ~e_use_mlx /\ whisper_available /\ model = "loaded"
    /\ \A k \in 1..Len(log) :
          /\ log[k].invoked = "mlx_whisper" => mlx_available
          /\ log[k].invoked = "whisper" =>
                (whisper_available /\ model = "loaded")

C8_Witness ==
    /\ epc = "failed"
    /\ error = "NoBackend"
    /\ arg_use_mlx = "True"
    /\ ~e_use_mlx
    /\ loads = 0

\* C9 (as claimed): a constructor called with an unsupported model size
\* fails with the ValueError having created no directory, selected no
\* backend, loaded no model and assigned no attribute.
C9_InvalidSizeBeforeAnyIO ==
    arg_model_size \notin SUPPORTED_MODELS =>
        /\ epc \in {"p_init", "init", "failed"}
        /\ epc = "failed" => error = "ValueError"
        /\ mkdirs = 0
        /\ assigned = {}
        /\ loads = 0

\* C10: a finished transcribe_audio call whose path is missing raised
\* FileNotFoundError; else, whose path is not a file, raised ValueError;
\* else, whose path is not readable, raised PermissionError; none of these
\* calls invoked a backend or returned a result, and a backend is only
\* about to be invoked for an existing readable file.
C10_PathCheckedBeforeBackend ==
    /\ \A k \in 1..Len(log) :
          LET c == log[k]
              bad == ~c.path.exists \/ ~c.path.is_file \/ ~c.path.readable
          IN  /\ ~c.path.exists => c.error = "FileNotFoundError"
              /\ (c.path.exists /\ ~c.path.is_file) => c.error = "ValueError"
              /\ (c.path.exists /\ c.path.is_file /\ ~c.path.readable) =>
                    c.error = "PermissionError"
              /\ bad => (c.invoked = "none" /\ c.backend = "none")
    /\ epc = "infer" => (path.exists /\ path.is_file /\ path.readable)

C10_Witness ==
    /\ Len(log) = 2
    /\ log[1].path = [exists |-> TRUE, is_file |-> FALSE, readable |-> FALSE]
    /\ log[1].error = "ValueError"
    /\ log[1].invoked = "none"
    /\ log[2].path = [exists |-> TRUE, is_file |-> TRUE, readable |-> FALSE]
    /\ log[2].error = "PermissionError"

\* The calls of transcribe_audio in which the backend raised.
BackendFailed(c) == c.invoked # "none" /\ c.error = "RuntimeError"

\* The failure kind the handler recognizes in a backend message.
AuthRequired(m) == "401" \in m \/ "Authorization" \in m \/ "credentials" \in m

RepoNotFound(m) == ~AuthRequired(m) /\ "Repository Not Found" \in m

\* C11 as stated: every failure of the backend is re-raised as the
\* transcription-failed error (RuntimeError "Failed to transcribe audio: ...")
\* whose message contains the message of the backend, for generic failures
\* and for the two recognized kinds alike.
C11_MessageCarriesBackendMessage ==
    \A k \in 1..Len(log) :
        BackendFailed(log[k]) =>
            /\ Prefix \in log[k].message
            /\ log[k].cause \subseteq log[k].message

\* C11 amended: every failure of the backend is re-raised as RuntimeError
\* "Failed to transcribe audio: ..."; the message contains the message of the
\* backend for a generic failure, and for the two recognized kinds it
\* contains the remediation text of the kind in place of the backend message.
C11_FailureTranslated ==
    \A k \in 1..Len(log) :
        LET c == log[k] IN
        BackendFailed(c) =>
            /\ Prefix \in c.message
            /\ AuthRequired(c.cause) =>
                  (auth_msg \subseteq c.message /\ "detail" \notin c.message)
            /\ RepoNotFound(c.cause) =>
                  (repo_msg \subseteq c.message /\ "detail" \notin c.message)
            /\ (~AuthRequired(c.cause) /\ ~RepoNotFound(c.cause)) =>
                  c.cause \subseteq c.message

C11_Witness ==
    /\ Len(log) = 2
    /\ BackendFailed(log[1]) /\ log[1].cause = {"detail", "Authorization"}
    /\ BackendFailed(log[2]) /\ log[2].cause = {"detail"}
    /\ log[2].message = {Prefix, "detail"}

\* The kind of failure a RuntimeError message reports.
ReportsAuth(m) == "Authentication failed" \in m

ReportsRepo(m) == "Model repository not found" \in m

\* C29: a backend failure is classified by what its message contains, with
\* a fixed precedence: authentication-required when the message contains
\* "401", "Authorization" or "credentials", also when it contains
\* "Repository Not Found" as well; repository-not-found only when it contains
\* "Repository Not Found" and none of the three; generic otherwise.
C29_AuthBeforeRepoBeforeGeneric ==
    \A k \in 1..Len(log) :
        LET c == log[k]
            marked == \E t \in {"401", "Authorization", "credentials"} :
                          t \in c.cause
        IN  BackendFailed(c) =>
              /\ ReportsAuth(c.message) <=> marked
              /\ ReportsRepo(c.message) <=>
                    ("Repository Not Found" \in c.cause /\ ~marked)
              /\ ~(ReportsAuth(c.message) /\ ReportsRepo(c.message))
              /\ (~ReportsAuth(c.message) /\ ~ReportsRepo(c.message)) <=>
                    (~marked /\ "Repository Not Found" \notin c.cause)

C29_Witness ==
    /\ Len(log) = 2
    /\ BackendFailed(log[1])
    /\ log[1].cause = {"detail", "credentials", "Repository Not Found"}
    /\ ReportsAuth(log[1].message) /\ ~ReportsRepo(log[1].message)
    /\ BackendFailed(log[2])
    /\ log[2].cause = {"detail", "Repository Not Found"}
    /\ ReportsRepo(log[2].message)

\* ------------------------------------------------ transcribe_video
VideoInit ==
    /\ vpc = "ready"
    /\ video_path = NoPath
    /\ v_keep_audio = FALSE
    /\ raising = "none"
    /\ temp_files = {}
    /\ vlog = <<>>

\* The state of these variables in runs that make no transcribe_video call.
VideoIdle ==
    /\ vpc = "idle"
    /\ video_path = NoPath
    /\ v_keep_audio = FALSE
    /\ raising = "none"
    /\ temp_files = {}
    /\ vlog = <<>>

\* The call in progress, and its temporary audio file.
Call == Len(vlog) + 1

\* transcribe_video up to the try statement: validate_file_path(video_path),
\* whose exception leaves the call, then the temporary file is created and
\* kept on disk (delete=False).
CreateTempAudio ==
    /\ vpc = "ready"
    /\ Len(vlog) < MaxVideoCalls
    /\ \E p \in Paths, keep \in BOOLEAN :
         /\ video_path' = p
         /\ v_keep_audio' = keep
         /\ IF validate_file_path(p) # "none"
            THEN /\ vlog' = Append(vlog, [keep_audio |-> keep,
                                          created |-> FALSE,
                                          exit |-> validate_file_path(p)])
                 /\ vpc' = "ready"
                 /\ temp_files' = temp_files
            ELSE /\ vlog' = vlog
                 /\ vpc' = "extract"
                 /\ temp_files' = temp_files \cup {Call}
    /\ raising' = "none"
    /\ UNCHANGED others_v

\* _extract_audio: ffmpeg writes the audio into the temporary file, or fails
\* and RuntimeError "Failed to extract audio" is raised.
ExtractAudio ==
    /\ vpc = "extract"
    /\ \E ok \in BOOLEAN :
         IF ok THEN vpc' = "metadata" /\ raising' = "none"
         ELSE vpc' = "finally" /\ raising' = "ExtractionFailed"
    /\ UNCHANGED <<video_path, v_keep_audio, temp_files, vlog>>
    /\ UNCHANGED others_v

\* _get_video_metadata: returns the metadata, or {} when probing fails.
GetVideoMetadata ==
    /\ vpc = "metadata"
    /\ vpc' = "transcribe"
    /\ UNCHANGED <<video_path, v_keep_audio, raising, temp_files, vlog>>
    /\ UNCHANGED others_v

\* transcribe_audio(audio_path) and the return statement: the result leaves
\* the try block, or the RuntimeError of transcribe_audio does.
TranscribeExtracted ==
    /\ vpc = "transcribe"
    /\ \E ok \in BOOLEAN :
         raising' = IF ok THEN "result" ELSE "TranscriptionFailed"
    /\ vpc' = "finally"
    /\ UNCHANGED <<video_path, v_keep_audio, temp_files, vlog>>
    /\ UNCHANGED others_v

\* KeyboardInterrupt while a call inside the try block is in flight.
InterruptVideo ==
    /\ vpc \in {"extract", "metadata", "transcribe"}
    /\ vpc' = "finally"
    /\ raising' = "KeyboardInterrupt"
    /\ UNCHANGED <<video_path, v_keep_audio, temp_files, vlog>>
    /\ UNCHANGED others_v

\* Mutant of RemoveTempAudio: the file is removed after the return statement
\* instead of in a finally clause.
RemoveTempAudio_OnReturn ==
    /\ vpc = "finally"
    /\ temp_files' = IF ~v_keep_audio /\ raising = "result"
                     THEN temp_files \ {Call} ELSE temp_files
    /\ vlog' = Append(vlog, [keep_audio |-> v_keep_audio,
                             created |-> TRUE,
                             exit |-> raising])
    /\ vpc' = "ready"
    /\ raising' = "none"
    /\ UNCHANGED <<video_path, v_keep_audio>>
    /\ UNCHANGED others_v

\* The finally clause: the temporary file is removed unless keep_audio, then
\* the result or the exception leaves transcribe_video.
RemoveTempAudio ==
    /\ vpc = "finally"
    /\ temp_files' = IF ~v_keep_audio /\ Call \in temp_files
                     THEN temp_files \ {Call} ELSE temp_files
    /\ vlog' = Append(vlog, [keep_audio |-> v_keep_audio,
                             created |-> TRUE,
                             exit |-> raising])
    /\ vpc' = "ready"
    /\ raising' = "none"
    /\ UNCHANGED <<video_path, v_keep_audio>>
    /\ UNCHANGED others_v

DigitChar(n) == <<"0", "1", "2", "3", "4", "5", "6", "7", "8", "9">>[n + 1]

RECURSIVE Digits(_)
\* The decimal digits of n, as str(n) gives them.
Digits(n) ==
    IF n < 10 THEN <<DigitChar(n)>>
    ELSE Digits(n \div 10) \o <<DigitChar(n % 10)>>

RECURSIVE ZeroPad(_, _)
\* Zero padding on the left up to a minimum width; longer strings are kept.
ZeroPad(str, width) ==
    IF Len(str) >= width THEN str ELSE ZeroPad(<<"0">> \o str, width)

\* The format specification 02d.
Format02d(n) == ZeroPad(Digits(n), 2)

\* The format specification 06.3f, for a value given in milliseconds.
Format063f(ms) ==
    ZeroPad(Digits(ms \div 1000) \o <<".">> \o ZeroPad(Digits(ms % 1000), 3),
            6)

\* str.replace for single characters.
Replace(str, old, new) ==
    [k \in 1..Len(str) |-> IF str[k] = old THEN new ELSE str[k]]

\* hours = int(seconds // 3600)
hours(d) == d \div 3600000

\* Mutant of minutes: the total number of minutes.
minutes_Total(d) == d \div 60000

\* minutes = int((seconds % 3600) // 60)
minutes(d) == (d % 3600000) \div 60000

\* secs = seconds % 60
secs(d) == d % 60000

format_timestamp_vtt(d) ==
    Format02d(hours(d)) \o <<":">> \o Format02d(minutes(d)) \o <<":">>
        \o Format063f(secs(d))

format_timestamp_srt(d) ==
    Replace(Format02d(hours(d)) \o <<":">> \o Format02d(minutes(d))
                \o <<":">> \o Format063f(secs(d)),
            ".", ",")

RECURSIVE LStrip(_)
LStrip(str) ==
    IF str # <<>> /\ Head(str) = " " THEN LStrip(Tail(str)) ELSE str

RECURSIVE RStrip(_)
RStrip(str) ==
    IF str # <<>> /\ str[Len(str)] = " "
    THEN RStrip(SubSeq(str, 1, Len(str) - 1)) ELSE str

\* str.strip for blanks.
Strip(str) == RStrip(LStrip(str))

Arrow == <<" ", "-", "-", ">", " ">>

WEBVTT == <<"W", "E", "B", "V", "T", "T">>

RECURSIVE SrtCues_FromZero(_, _)
\* Mutant of SrtCues: enumerate starts at 0.
SrtCues_FromZero(segments, num) ==
    IF num > Len(segments) THEN <<>>
    ELSE <<Digits(num - 1),
           format_timestamp_srt(segments[num].start) \o Arrow
               \o format_timestamp_srt(segments[num].end),
           Strip(segments[num].text),
           <<>>>> \o SrtCues_FromZero(segments, num + 1)

RECURSIVE SrtCues(_, _)
\* The lines save_as_srt writes for the segments from segment num on.
SrtCues(segments, num) ==
    IF num > Len(segments) THEN <<>>
    ELSE <<Digits(num),
           format_timestamp_srt(segments[num].start) \o Arrow
               \o format_timestamp_srt(segments[num].end),
           Strip(segments[num].text),
           <<>>>> \o SrtCues(segments, num + 1)

RECURSIVE VttCues(_, _)
\* The lines save_as_vtt writes for the segments from segment num on.
VttCues(segments, num) ==
    IF num > Len(segments) THEN <<>>
    ELSE <<format_timestamp_vtt(segments[num].start) \o Arrow
               \o format_timestamp_vtt(segments[num].end),
           Strip(segments[num].text),
           <<>>>> \o VttCues(segments, num + 1)

\* The lines of the file save_as_srt leaves (the file is opened with "w").
save_as_srt(res) ==
    IF res.has_segments THEN SrtCues(res.segments, 1) ELSE <<>>

\* The lines of the file save_as_vtt leaves.
save_as_vtt(res) ==
    <<WEBVTT, <<>>>> \o
        (IF res.has_segments THEN VttCues(res.segments, 1) ELSE <<>>)

\* The timestamps of the segments: whole milliseconds, up to 100 hours.
Stamps == {0, 1500, 3661500}

\* The inputs of format_timestamp_*: the values of the unit tests and values
\* at the borders of the seconds, minutes and hours fields.
TimestampInputs ==
    {0, 1500, 61250, 3661500, 59999, 3599999, 359999999, 360000000}

Texts == {<<" ", "h", "i">>, <<"y", "o", " ">>}

Segments ==
    {g \in [start : Stamps, end : Stamps, text : Texts] : g.start < g.end}

Results ==
    {[has_segments |-> FALSE, segments |-> <<>>]} \cup
    {[has_segments |-> TRUE, segments |-> seg] :
        seg \in UNION {[1..n -> Segments] : n \in 0..MaxSegments}}

NoStamp == [d |-> 0, srt |-> <<>>, vtt |-> <<>>]

FormatInit ==
    /\ fpc = "ready"
    /\ f_result \in Results
    /\ f_file \in {<<>>, <<<<"o", "l", "d">>>>}
    /\ f_format = "none"
    /\ f_stamp = NoStamp

\* The state of these variables in runs that do not use the formatter.
FormatIdle ==
    /\ fpc = "idle"
    /\ f_result = [has_segments |-> FALSE, segments |-> <<>>]
    /\ f_file = <<>>
    /\ f_format = "none"
    /\ f_stamp = NoStamp

\* A call of format_timestamp_srt and of format_timestamp_vtt on one duration.
FormatTimestamp ==
    /\ fpc \in {"ready", "saved"}
    /\ \E d \in TimestampInputs :
         f_stamp' = [d |-> d, srt |-> format_timestamp_srt(d),
                     vtt |-> format_timestamp_vtt(d)]
    /\ UNCHANGED <<fpc, f_result, f_file, f_format>>
    /\ UNCHANGED others_f

SaveAsSrt ==
    /\ fpc = "ready"
    /\ f_file' = save_as_srt(f_result)
    /\ f_format' = "srt"
    /\ fpc' = "saved"
    /\ UNCHANGED <<f_result, f_stamp>>
    /\ UNCHANGED others_f

SaveAsVtt ==
    /\ fpc = "ready"
    /\ f_file' = save_as_vtt(f_result)
    /\ f_format' = "vtt"
    /\ fpc' = "saved"
    /\ UNCHANGED <<f_result, f_stamp>>
    /\ UNCHANGED others_f

\* ---------------------------------------------- the claims (formatter)
DigitChars == {DigitChar(n) : n \in 0..9}

IsDigits(str) == \A k \in 1..Len(str) : str[k] \in DigitChars

CharDigit(c) == CHOOSE n \in 0..9 : DigitChar(n) = c

RECURSIVE Value(_)
\* The number a string of digits denotes.
Value(str) ==
    IF str = <<>> THEN 0
    ELSE 10 * Value(SubSeq(str, 1, Len(str) - 1)) + CharDigit(str[Len(str)])

\* The segments of the result handed to save_as_*, none when absent.
GivenSegments == IF f_result.has_segments THEN f_result.segments ELSE <<>>

\* C13: after save_as_srt the file holds exactly one cue per segment, in
\* segment order, numbered 1..n: the number, the timing line of the segment,
\* its stripped text and a blank line; after save_as_vtt it holds the WEBVTT
\* header and a blank line followed by one cue per segment in order; without
\* segments (absent or empty) the SRT file is empty and the VTT file is
\* exactly the header and the blank line.
C13_OneCuePerSegment ==
    LET segs == GivenSegments
        n == Len(segs)
    IN  /\ (fpc = "saved" /\ f_format = "srt") =>
              /\ Len(f_file) = 4 * n
              /\ \A k \in 1..n :
                    /\ IsDigits(f_file[4 * k - 3])
                    /\ Value(f_file[4 * k - 3]) = k
                    /\ f_file[4 * k - 2] =
                          format_timestamp_srt(segs[k].start) \o Arrow
                              \o format_timestamp_srt(segs[k].end)
                    /\ f_file[4 * k - 1] = Strip(segs[k].text)
                    /\ f_file[4 * k] = <<>>
              /\ n = 0 => f_file = <<>>
        /\ (fpc = "saved" /\ f_format = "vtt") =>
              /\ Len(f_file) = 2 + 3 * n
              /\ f_file[1] = WEBVTT
              /\ f_file[2] = <<>>
              /\ \A k \in 1..n :
                    /\ f_file[3 * k] =
                          format_timestamp_vtt(segs[k].start) \o Arrow
                              \o format_timestamp_vtt(segs[k].end)
                    /\ f_file[3 * k + 1] = Strip(segs[k].text)
                    /\ f_file[3 * k + 2] = <<>>
              /\ n = 0 => f_file = <<WEBVTT, <<>>>>

C13_Witness ==
    /\ fpc = "saved"
    /\ f_format = "srt"
    /\ Len(f_result.segments) = 2
    /\ f_file[5] = <<"2">>
    /\ f_file[7] = <<"y", "o">>

\* A timestamp of duration d with the separator sep before the milliseconds:
\* hours of at least two digits, two-digit minutes and seconds, three-digit
\* milliseconds, with the values the duration gives.
WellFormed(str, sep, d) ==
    /\ Len(str) >= 12
    /\ LET hw == Len(str) - 10
           HH == SubSeq(str, 1, hw)
           MM == SubSeq(str, hw + 2, hw + 3)
           SS == SubSeq(str, hw + 5, hw + 6)
           mmm == SubSeq(str, hw + 8, hw + 10)
       IN  /\ str[hw + 1] = ":" /\ str[hw + 4] = ":" /\ str[hw + 7] = sep
           /\ IsDigits(HH) /\ IsDigits(MM) /\ IsDigits(SS) /\ IsDigits(mmm)
           /\ Value(HH) = d \div 3600000
           /\ Value(MM) = (d % 3600000) \div 60000
           /\ 1000 * Value(SS) + Value(mmm) = d % 60000

\* The two strings are equal except for the separator before the
\* milliseconds.
DifferOnlyInSeparator(a, b) ==
    /\ Len(a) = Len(b)
    /\ Len(a) >= 4
    /\ a[Len(a) - 3] = "," /\ b[Len(b) - 3] = "."
    /\ \A k \in 1..Len(a) : k # Len(a) - 3 => a[k] = b[k]

Formatted == f_stamp.srt # <<>>

\* C14 as stated: for every duration the two timestamps have the shape
\* HH:MM:SS,mmm and HH:MM:SS.mmm with two-digit hours, minutes and seconds,
\* three-digit milliseconds and the values of the duration, and differ only
\* in the separator.
C14_TwoDigitFields ==
    Formatted =>
        /\ WellFormed(f_stamp.srt, ",", f_stamp.d)
        /\ WellFormed(f_stamp.vtt, ".", f_stamp.d)
        /\ Len(f_stamp.srt) = 12 /\ Len(f_stamp.vtt) = 12
        /\ DifferOnlyInSeparator(f_stamp.srt, f_stamp.vtt)

\* C14 amended: the two timestamps have the shape H..:MM:SS,mmm and
\* H..:MM:SS.mmm with two-digit minutes and seconds, three-digit
\* milliseconds and the values of the duration; the hours have two digits
\* below 100 hours and as many digits as their value has from 100 hours on;
\* the two results differ only in the separator.
C14_TimestampShape ==
    Formatted =>
        /\ WellFormed(f_stamp.srt, ",", f_stamp.d)
        /\ WellFormed(f_stamp.vtt, ".", f_stamp.d)
        /\ f_stamp.d < 360000000 =>
              (Len(f_stamp.srt) = 12 /\ Len(f_stamp.vtt) = 12)
        /\ f_stamp.d >= 360000000 =>
              (Len(f_stamp.srt) > 12 /\ Len(f_stamp.vtt) > 12)
        /\ DifferOnlyInSeparator(f_stamp.srt, f_stamp.vtt)

C14_Witness ==
    /\ f_stamp.d = 3661500
    /\ f_stamp.srt =
          <<"0", "1", ":", "0", "1", ":", "0", "1", ",", "5", "0", "0">>
    /\ f_stamp.vtt =
          <<"0", "1", ":", "0", "1", ":", "0", "1", ".", "5", "0", "0">>

\* ------------------------------------------------ save_transcription
SUPPORTED_FORMATS == {"text", "json", "csv", "srt", "vtt"}

\* The format arguments: the supported ones, and two that are not.
Formats == SUPPORTED_FORMATS \cup {"xml", "SRT"}

\* The directory and the file of output_path.
FileSystem == [dir |-> parent_exists, file |-> out_file]

SaveInit ==
    /\ spc = "ready"
    /\ s_format = "none"
    /\ parent_exists \in BOOLEAN
    /\ out_file \in {"absent", "old"}
    /\ ~parent_exists => out_file = "absent"
    /\ s_before = FileSystem
    /\ slog = <<>>

\* The state of these variables in runs that make no save_transcription call.
SaveIdle ==
    /\ spc = "idle"
    /\ s_format = "none"
    /\ parent_exists = FALSE
    /\ out_file = "absent"
    /\ s_before = FileSystem
    /\ slog = <<>>

\* Mutant of CheckFormat: the directory is created before the format is
\* looked at.
CheckFormat_AfterMkdir ==
    /\ spc = "ready"
    /\ Len(slog) < MaxSaves
    /\ \E fmt \in Formats :
         /\ s_format' = fmt
         /\ s_before' = FileSystem
         /\ parent_exists' = TRUE
         /\ IF fmt \notin SUPPORTED_FORMATS
            THEN /\ slog' = Append(slog, [format |-> fmt,
                                          error |-> "ValueError",
                                          before |-> FileSystem,
                                          fault |-> FALSE])
                 /\ spc' = "ready"
            ELSE /\ slog' = slog
                 /\ spc' = "write"
    /\ UNCHANGED out_file
    /\ UNCHANGED others_s

\* save_transcription, lines 298-299: an unsupported format raises ValueError
\* at once.
CheckFormat ==
    /\ spc = "ready"
    /\ Len(slog) < MaxSaves
    /\ \E fmt \in Formats :
         /\ s_format' = fmt
         /\ s_before' = FileSystem
         /\ IF fmt \notin SUPPORTED_FORMATS
            THEN /\ slog' = Append(slog, [format |-> fmt,
                                          error |-> "ValueError",
                                          before |-> FileSystem,
                                          fault |-> FALSE])
                 /\ spc' = "ready"
            ELSE /\ slog' = slog
                 /\ spc' = "mkdir"
    /\ UNCHANGED <<parent_exists, out_file>>
    /\ UNCHANGED others_s

\* output_path.parent.mkdir(parents=True, exist_ok=True): creates a missing
\* directory, or fails with OSError, which leaves the call as it is.
MakeParent ==
    /\ spc = "mkdir"
    /\ \/ /\ parent_exists' = TRUE
          /\ spc' = "write"
          /\ slog' = slog
       \/ /\ ~parent_exists
          /\ parent_exists' = parent_exists
          /\ spc' = "ready"
          /\ slog' = Append(slog, [format |-> s_format,
                                   error |-> "OSError",
                                   before |-> s_before,
                                   fault |-> TRUE])
    /\ UNCHANGED <<s_format, out_file, s_before>>
    /\ UNCHANGED others_s

\* The try block: the writer of the format opens the file with "w" and writes
\* it; any exception is re-raised as RuntimeError "Failed to save
\* transcription", with the file untouched or truncated.
WriteFile ==
    /\ spc = "write"
    /\ \/ /\ out_file' = "written"
          /\ slog' = Append(slog, [format |-> s_format,
                                   error |-> "none",
                                   before |-> s_before,
                                   fault |-> FALSE])
       \/ /\ out_file' \in {out_file, "truncated"}
          /\ slog' = Append(slog, [format |-> s_format,
                                   error |-> "RuntimeError",
                                   before |-> s_before,
                                   fault |-> TRUE])
    /\ spc' = "ready"
    /\ UNCHANGED <<s_format, parent_exists, s_before>>
    /\ UNCHANGED others_s

\* C15: a finished save_transcription call with a format outside the
\* supported set raised ValueError, and a call that has just finished so
\* left the directory and the file as they were when it was made; a call
\* with a supported format never raised ValueError, and raised nothing
\* unless creating the directory or writing the file failed.
C15_UnsupportedFormatTouchesNothing ==
    /\ \A k \in 1..Len(slog) :
          /\ slog[k].format \notin SUPPORTED_FORMATS =>
                slog[k].error = "ValueError"
          /\ slog[k].format \in SUPPORTED_FORMATS =>
                /\ slog[k].error # "ValueError"
                /\ ~slog[k].fault => slog[k].error = "none"
    /\ (spc = "ready" /\ s_format \notin SUPPORTED_FORMATS
          /\ s_format # "none") =>
            /\ slog[Len(slog)].format = s_format
            /\ FileSystem = s_before

C15_Witness ==
    /\ Len(slog) = 2
    /\ slog[1].format = "srt" /\ slog[1].error = "none"
    /\ slog[2].format = "SRT" /\ slog[2].error = "ValueError"
    /\ s_before = [dir |-> TRUE, file |-> "written"]
    /\ FileSystem = s_before

\* ------------------------------------------------------ the commands
MlxFlags == {"--use-mlx", "--no-mlx", "absent"}

\* The option --use-mlx/--no-mlx is a boolean flag with default=False.
use_mlx_option(given) == IF given = "--use-mlx" THEN "True" ELSE "False"

CliInit ==
    /\ is_mac_silicon \in BOOLEAN
    /\ mlx_available \in BOOLEAN
    /\ mlx_available => is_mac_silicon
    /\ whisper_available \in BOOLEAN
    /\ ctor = "engine"
    /\ arg_model_size \in {"tiny", "base"}
    /\ arg_use_mlx = "unset"
    /\ dir_exists = TRUE
    /\ epc = "cli"
    /\ assigned = {}
    /\ e_model_size = "unset"
    /\ e_use_mlx = FALSE
    /\ model = "None"
    /\ mlx_model_path = "unset"
    /\ warned = FALSE
    /\ error = "none"
    /\ mkdirs = 0
    /\ loads = 0
    /\ path = NoPath
    /\ log = <<>>
    /\ command \in {"transcribe", "playlist"}
    /\ flag \in MlxFlags
    /\ t_input \in {"url", "video", "audio"}
    /\ t_output \in BOOLEAN
    /\ command = "playlist" => (t_input = "url" /\ t_output)
    /\ tpc = "start"
    /\ trace = <<>>
    /\ exit_code = -1
    /\ reported = FALSE

\* The state of these variables in runs that run no command.
CliIdle ==
    /\ command = "none"
    /\ flag = "absent"
    /\ t_input = "url"
    /\ t_output = FALSE
    /\ tpc = "idle"
    /\ trace = <<>>
    /\ exit_code = -1
    /\ reported = FALSE

\* transcribe and playlist up to the constructor call: playlist validates the
\* URL and exits with status 1 when it is invalid; the options are handed to
\* TranscriptionEngine, or to PlaylistProcessor, which constructs the engine.
InvokeCommand ==
    /\ tpc = "start"
    /\ \E valid \in BOOLEAN :
         IF command = "playlist" /\ ~valid
         THEN /\ trace' = Append(trace, [step |-> "validate_url", ok |-> FALSE])
              /\ tpc' = "exit"
              /\ exit_code' = 1
              /\ reported' = TRUE
              /\ UNCHANGED <<ctor, arg_use_mlx, epc>>
         ELSE /\ ctor' = IF command = "playlist" THEN "processor"
                         ELSE "engine"
              /\ arg_use_mlx' = use_mlx_option(flag)
              /\ epc' = IF command = "playlist" THEN "p_init" ELSE "init"
              /\ tpc' = "construct"
              /\ UNCHANGED <<trace, exit_code, reported>>
    /\ UNCHANGED <<is_mac_silicon, mlx_available, whisper_available,
                   arg_model_size, dir_exists, assigned, e_model_size,
                   e_use_mlx, model, mlx_model_path, warned, error, mkdirs,
                   loads, path, log>>
    /\ UNCHANGED <<command, flag, t_input, t_output>>
    /\ UNCHANGED others_c

\* main: an exception of the constructor is printed and the exit status is 1.
ConstructionFailed ==
    /\ tpc = "construct"
    /\ epc = "failed"
    /\ trace' = Append(trace, [step |-> "construct", ok |-> FALSE])
    /\ tpc' = "exit"
    /\ exit_code' = 1
    /\ reported' = TRUE
    /\ UNCHANGED <<command, flag, t_input, t_output>>
    /\ UNCHANGED evars
    /\ UNCHANGED others_c

\* transcribe, line 224: is_youtube_url(input) selects the branch.
Dispatch ==
    /\ tpc = "construct"
    /\ epc = "ready"
    /\ command = "transcribe"
    /\ tpc' = IF t_input = "url" THEN "info" ELSE "exists"
    /\ UNCHANGED <<command, flag, t_input, t_output, trace, exit_code,
                   reported>>
    /\ UNCHANGED evars
    /\ UNCHANGED others_c

\* transcribe, lines 229-232: get_video_info returns the metadata or None;
\* the title is printed when there is one, and the command goes on.
LookUpMetadata ==
    /\ tpc = "info"
    /\ \E ok \in BOOLEAN :
         trace' = Append(trace, [step |-> "metadata", ok |-> ok])
    /\ tpc' = "download"
    /\ UNCHANGED <<command, flag, t_input, t_output, exit_code, reported>>
    /\ UNCHANGED evars
    /\ UNCHANGED others_c

\* Mutant of Download: a missing audio path is not tested.
Download_Unchecked ==
    /\ tpc = "download"
    /\ \E ok \in BOOLEAN :
         trace' = Append(trace, [step |-> "download", ok |-> ok])
    /\ tpc' = "transcribe"
    /\ UNCHANGED <<command, flag, t_input, t_output, exit_code, reported>>
    /\ UNCHANGED evars
    /\ UNCHANGED others_c

\* transcribe, lines 235-238: download_video returns the audio path or None;
\* None prints "Failed to download video" and exits with status 1.
Download ==
    /\ tpc = "download"
    /\ \E ok \in BOOLEAN :
         /\ trace' = Append(trace, [step |-> "download", ok |-> ok])
         /\ IF ok
            THEN tpc' = "transcribe" /\ UNCHANGED <<exit_code, reported>>
            ELSE tpc' = "exit" /\ exit_code' = 1 /\ reported' = TRUE
    /\ UNCHANGED <<command, flag, t_input, t_output>>
    /\ UNCHANGED evars
    /\ UNCHANGED others_c

\* transcribe, lines 255-258: a missing local file prints "File not found"
\* and exits with status 1.
FileCheck ==
    /\ tpc = "exists"
    /\ \E ok \in BOOLEAN :
         /\ trace' = Append(trace, [step |-> "file_check", ok |-> ok])
         /\ IF ok
            THEN tpc' = "transcribe" /\ UNCHANGED <<exit_code, reported>>
            ELSE tpc' = "exit" /\ exit_code' = 1 /\ reported' = TRUE
    /\ UNCHANGED <<command, flag, t_input, t_output>>
    /\ UNCHANGED evars
    /\ UNCHANGED others_c

\* transcribe_audio or transcribe_video: an exception reaches main, which
\* prints it and exits with status 1.
Transcribe ==
    /\ tpc = "transcribe"
    /\ \E ok \in BOOLEAN :
         /\ trace' = Append(trace, [step |-> "transcription", ok |-> ok])
         /\ IF ok
            THEN /\ tpc' = IF t_output THEN "save" ELSE "print"
                 /\ UNCHANGED <<exit_code, reported>>
            ELSE tpc' = "exit" /\ exit_code' = 1 /\ reported' = TRUE
    /\ UNCHANGED <<command, flag, t_input, t_output>>
    /\ UNCHANGED evars
    /\ UNCHANGED others_c

\* transcribe, lines 279-280: save_transcription; an exception reaches main.
Save ==
    /\ tpc = "save"
    /\ \E ok \in BOOLEAN :
         /\ trace' = Append(trace, [step |-> "saving", ok |-> ok])
         /\ IF ok
            THEN exit_code' = 0 /\ reported' = reported
            ELSE exit_code' = 1 /\ reported' = TRUE
    /\ tpc' = "exit"
    /\ UNCHANGED <<command, flag, t_input, t_output>>
    /\ UNCHANGED evars
    /\ UNCHANGED others_c

\* transcribe, lines 282-285: without --output the text is printed.
PrintText ==
    /\ tpc = "print"
    /\ trace' = Append(trace, [step |-> "print", ok |-> TRUE])
    /\ tpc' = "exit"
    /\ exit_code' = 0
    /\ UNCHANGED <<command, flag, t_input, t_output, reported>>
    /\ UNCHANGED evars
    /\ UNCHANGED others_c

\* ---------------------------------------------- the claims (commands)
\* C16: once a command run with neither --use-mlx nor --no-mlx has had its
\* engine resolve the backend, the preference handed to the engine is
\* auto-detect and the accelerated backend is selected exactly when the
\* capability is present.
C16_NoFlagMeansAutoDetect ==
    (flag = "absent" /\ tpc # "start" /\ "use_mlx" \in assigned) =>
        /\ arg_use_mlx = "None"
        /\ e_use_mlx <=> Capability

\* The steps of single-item mode whose failure the command takes as fatal.
FatalSteps == {"download", "file_check", "transcription", "saving"}

NoneEntry == [out |-> "None", dur |-> 0]

\* The limit None, and the limits given.
NoLimit == [given |-> FALSE, value |-> 0]

Limits == {NoLimit} \cup {[given |-> TRUE, value |-> v] : v \in 0..MaxLimit}

\* The enumerations of a channel: videos that transcribe, videos whose
\* transcription fails, and empty entries.
ChannelEntries ==
    UNION {[1..n -> {[out |-> "ok", dur |-> 2], [out |-> "tr_fail", dur |-> 0],
                     NoneEntry}] : n \in 0..MaxItems}

\* The truth value of the argument in "if limit:".
Truthy(lim) == lim.given /\ lim.value # 0

\* video_urls[:limit] for a limit that is not negative.
Slice(urls, stop) ==
    SubSeq(urls, 1, IF stop < Len(urls) THEN stop ELSE Len(urls))

\* The list comprehension of get_channel_videos: the entries that are not
\* None.
Enumerated(info) == SelectSeq(info, LAMBDA entry : entry # NoneEntry)

\* get_channel_videos: the list it returns.
get_channel_videos(info, lim) ==
    IF Truthy(lim) THEN Slice(Enumerated(info), lim.value)
    ELSE Enumerated(info)

ChannelInit ==
    /\ entries \in ChannelEntries
    /\ limit \in Limits
    /\ video_urls = <<>>
    /\ keep_audio = FALSE
    /\ pc = "channel"
    /\ i = 0
    /\ result = <<>>
    /\ stats = ZeroStats
    /\ csv_exists = FALSE
    /\ disk = <<>>
    /\ buffer = <<>>
    /\ file_exists = FALSE
    /\ prior = <<>>
    /\ audio = {}
    /\ pauses = {}
    /\ cancelled = "none"
    /\ summary = <<>>

\* The state of these variables in runs that process no channel.
ChannelIdle ==
    /\ entries = <<>>
    /\ limit = NoLimit

\* process_channel up to the call of _process_video_list.
ProcessChannel ==
    /\ pc = "channel"
    /\ video_urls' = get_channel_videos(entries, limit)
    /\ IF Len(video_urls') = 0
       THEN /\ pc' = "done"
            /\ stats' = stats
       ELSE /\ pc' = "open"
            /\ stats' = [stats EXCEPT !.total_videos = Len(video_urls')]
    /\ UNCHANGED <<keep_audio, i, result, csv_exists, disk, buffer,
                   file_exists, prior, audio, pauses, cancelled, summary>>
    /\ UNCHANGED <<evars, xvars>>

\* C17: once a channel batch with a limit has enumerated the channel, the
\* items it is to process are the first `limit` items of the enumeration (all
\* of them when there are fewer), so at most `limit` items, and no more than
\* `limit` items are processed or have a row in the destination.
C17_AtMostLimitItems ==
    (limit.given /\ pc \notin {"idle", "channel"}) =>
        /\ Len(video_urls) <= limit.value
        /\ video_urls = Slice(Enumerated(entries), limit.value)
        /\ stats.processed + stats.failed <= limit.value
        /\ Len(SelectSeq(disk \o buffer, IsRow)) <= limit.value

\* ---------------------------------------------------- a second engine
NotYet == [done |-> FALSE, resolved |-> FALSE, use_mlx |-> FALSE,
           error |-> "none"]

TwiceInit == earlier = NotYet

\* The state of this variable in runs that construct one engine.
TwiceIdle == earlier = NotYet

\* After the first constructor has returned or raised, the same constructor
\* is called again with the same arguments in the same process: the module
\* level probes are as they were, and the attributes are those of a new
\* object.
ConstructAgain ==
    /\ ~earlier.done
    /\ epc \in {"ready", "failed"}
    /\ earlier' = [done |-> TRUE, resolved |-> "use_mlx" \in assigned,
                   use_mlx |-> e_use_mlx, error |-> error]
    /\ epc' = IF ctor = "processor" THEN "p_init" ELSE "init"
    /\ assigned' = {}
    /\ e_model_size' = "unset"
    /\ e_use_mlx' = FALSE
    /\ model' = "None"
    /\ mlx_model_path' = "unset"
    /\ warned' = FALSE
    /\ error' = "none"
    /\ path' = NoPath
    /\ log' = <<>>
    /\ UNCHANGED <<is_mac_silicon, mlx_available, whisper_available, ctor,
                   arg_model_size, arg_use_mlx, dir_exists, mkdirs, loads>>
    /\ UNCHANGED <<bvars, vvars, fvars, svars, cvars, hvars, kvars, rvars>>

\* The backend function transcribe_audio calls for a value of self.use_mlx.
Invoked(use_mlx) == IF use_mlx THEN "mlx_whisper" ELSE "whisper"

others_k == <<evars, vvars, fvars, svars, cvars, hvars, dvars, rvars>>

\* A batch on a new destination, the audio not kept.
SinkFaultInit ==
    /\ video_urls \in Playlists
    /\ keep_audio = FALSE
    /\ pc = "start"
    /\ i = 0
    /\ result = <<>>
    /\ stats = ZeroStats
    /\ csv_exists = FALSE
    /\ disk = <<>>
    /\ buffer = <<>>
    /\ file_exists = FALSE
    /\ prior = <<>>
    /\ audio = {}
    /\ pauses = {}
    /\ cancelled = "none"
    /\ summary = <<>>
    /\ faults = {}

\* The state of this variable in runs whose sink does not fail.
SinkFaultIdle == faults = {}

\* writer.writerow(result) raises OSError, with the row buffered or not:
\* "except Exception" logs the error and counts the item as failed, and the
\* loop body goes on after the try statement.
WriteRowFails ==
    /\ pc = "tally"
    /\ result # <<>>
    /\ buffer' \in {buffer, buffer \o result}
    /\ faults' = faults \cup {i}
    /\ stats' = [stats EXCEPT !.failed = @ + 1]
    /\ pc' = "advance"
    /\ UNCHANGED <<video_urls, keep_audio, i, result, csv_exists, disk,
                   file_exists, prior, audio, pauses, cancelled, summary>>
    /\ UNCHANGED others_k

\* Mutant of FlushFails: the exception leaves _process_video_list.
FlushFails_Aborts ==
    /\ pc = "flush"
    /\ faults' = faults \cup {i}
    /\ pc' = "raised"
    /\ UNCHANGED <<video_urls, keep_audio, i, result, stats, csv_exists, disk,
                   buffer, file_exists, prior, audio, pauses, cancelled,
                   summary>>
    /\ UNCHANGED others_k

\* csvfile.flush() raises OSError: the row stays in the buffer of the file
\* object, "except Exception" logs the error and counts the item as failed,
\* and the loop body goes on after the try statement.
FlushFails ==
    /\ pc = "flush"
    /\ faults' = faults \cup {i}
    /\ stats' = [stats EXCEPT !.failed = @ + 1]
    /\ pc' = "advance"
    /\ UNCHANGED <<video_urls, keep_audio, i, result, csv_exists, disk,
                   buffer, file_exists, prior, audio, pauses, cancelled,
                   summary>>
    /\ UNCHANGED others_k

\* The items whose pass through the try statement is over.
Over ==
    {j \in 1..N : j < i \/ (j = i /\ pc \in {"advance", "sleep", "loop",
                                             "summary", "done", "raised"})}

others_r == <<evars, vvars, fvars, svars, cvars, hvars, dvars, kvars>>

\* The playlists of the later batches.
LaterPlaylists ==
    UNION {[1..n -> Item] : n \in 0..MaxLaterItems}

\* A new processor: __init__ has set every counter to zero.
AgainInit ==
    /\ runs = 0
    /\ at_start = ZeroStats

\* The state of these variables in runs of a single batch.
AgainIdle ==
    /\ runs = 0
    /\ at_start = ZeroStats

\* process_playlist called on a processor that has run a batch: self.stats
\* is the dictionary __init__ made, and the only counter the call assigns is
\* total_videos.
ProcessPlaylistAgain ==
    /\ pc = "done"
    /\ runs < MaxLaterBatches
    /\ runs' = runs + 1
    /\ at_start' = stats
    /\ \E v \in LaterPlaylists :
          /\ video_urls' = v
          /\ IF Len(v) = 0
             THEN /\ pc' = "done"
                  /\ stats' = stats
             ELSE /\ pc' = "open"
                  /\ stats' = [stats EXCEPT !.total_videos = Len(v)]
    /\ i' = 0
    /\ result' = <<>>
    /\ prior' = disk
    /\ pauses' = {}
    /\ UNCHANGED <<keep_audio, csv_exists, disk, buffer, file_exists, audio,
                   cancelled, summary>>
    /\ UNCHANGED others_r

\* C23: at the start of every batch all the counters are zero, and the
\* summary of a batch counts only the items of that batch, also when one
\* processor runs several batches one after the other.
C23_CountersZeroAtBatchStart ==
    /\ at_start.processed = 0
    /\ at_start.failed = 0
    /\ at_start.total_duration = 0
    /\ at_start.total_transcription_time = 0
    /\ (pc = "done" /\ N > 0 /\ Len(summary) > 0) =>
          summary[Len(summary)].processed + summary[Len(summary)].failed = N

\* ------------------------------------------------------ specifications
Init == BatchInit /\ EngineIdle /\ VideoIdle /\ FormatIdle /\ SaveIdle /\ CliIdle /\ ChannelIdle /\ TwiceIdle /\ SinkFaultIdle /\ AgainIdle

Next ==
    \/ ProcessPlaylist
    \/ OpenSink
    \/ LoopHead
    \/ GetVideoInfo
    \/ DownloadVideo
    \/ TranscribeItem
    \/ CleanUp
    \/ WriteRow
    \/ Flush
    \/ CountFailed
    \/ Advance
    \/ Sleep
    \/ InterruptInTry
    \/ InterruptOutsideTry
    \/ PrintSummary

Spec == Init /\ [][Next]_vars

InitEngine == EngineInit /\ BatchIdle /\ VideoIdle /\ FormatIdle /\ SaveIdle /\ CliIdle /\ ChannelIdle /\ TwiceIdle /\ SinkFaultIdle /\ AgainIdle

NextEngine ==
    \/ ProcessorInit
    \/ ValidateModelSize
    \/ ResolveBackend
    \/ CheckBackend
    \/ LoadModel
    \/ TranscribeAudioValidate
    \/ TranscribeAudioInfer

SpecEngine == InitEngine /\ [][NextEngine]_vars

InitVideo == VideoInit /\ BatchIdle /\ EngineIdle /\ FormatIdle /\ SaveIdle /\ CliIdle /\ ChannelIdle /\ TwiceIdle /\ SinkFaultIdle /\ AgainIdle

NextVideo ==
    \/ CreateTempAudio
    \/ ExtractAudio
    \/ GetVideoMetadata
    \/ TranscribeExtracted
    \/ InterruptVideo
    \/ RemoveTempAudio

SpecVideo == InitVideo /\ [][NextVideo]_vars

InitFormat == FormatInit /\ BatchIdle /\ EngineIdle /\ VideoIdle /\ SaveIdle /\ CliIdle /\ ChannelIdle /\ TwiceIdle /\ SinkFaultIdle /\ AgainIdle

NextFormat ==
    \/ FormatTimestamp
    \/ SaveAsSrt
    \/ SaveAsVtt

SpecFormat == InitFormat /\ [][NextFormat]_vars

InitSave == SaveInit /\ BatchIdle /\ EngineIdle /\ VideoIdle /\ FormatIdle /\ CliIdle /\ ChannelIdle /\ TwiceIdle /\ SinkFaultIdle /\ AgainIdle

NextSave ==
    \/ CheckFormat
    \/ MakeParent
    \/ WriteFile

SpecSave == InitSave /\ [][NextSave]_vars

InitCli == CliInit /\ BatchIdle /\ VideoIdle /\ FormatIdle /\ SaveIdle /\ ChannelIdle /\ TwiceIdle /\ SinkFaultIdle /\ AgainIdle

NextCli ==
    \/ InvokeCommand
    \/ ProcessorInit
    \/ ValidateModelSize
    \/ ResolveBackend
    \/ CheckBackend
    \/ LoadModel
    \/ ConstructionFailed
    \/ Dispatch
    \/ LookUpMetadata
    \/ Download
    \/ FileCheck
    \/ Transcribe
    \/ Save
    \/ PrintText

SpecCli == InitCli /\ [][NextCli]_vars

InitChannel ==
    /\ ChannelInit /\ EngineIdle /\ VideoIdle /\ FormatIdle /\ SaveIdle
    /\ CliIdle /\ TwiceIdle /\ SinkFaultIdle /\ AgainIdle

NextChannel ==
    \/ ProcessChannel
    \/ OpenSink
    \/ LoopHead
    \/ GetVideoInfo
    \/ DownloadVideo
    \/ TranscribeItem
    \/ CleanUp
    \/ WriteRow
    \/ Flush
    \/ CountFailed
    \/ Advance
    \/ Sleep
    \/ PrintSummary

SpecChannel == InitChannel /\ [][NextChannel]_vars

InitTwice ==
    /\ EngineInit /\ TwiceInit /\ BatchIdle /\ VideoIdle /\ FormatIdle
    /\ SaveIdle /\ CliIdle /\ ChannelIdle /\ SinkFaultIdle /\ AgainIdle

NextTwice ==
    \/ ProcessorInit
    \/ ValidateModelSize
    \/ ResolveBackend
    \/ CheckBackend
    \/ LoadModel
    \/ ConstructAgain
    \/ TranscribeAudioValidate
    \/ TranscribeAudioInfer

SpecTwice == InitTwice /\ [][NextTwice]_vars

InitSinkFault ==
    /\ SinkFaultInit /\ EngineIdle /\ VideoIdle /\ FormatIdle /\ SaveIdle
    /\ CliIdle /\ ChannelIdle /\ TwiceIdle /\ AgainIdle

NextSinkFault ==
    \/ ProcessPlaylist
    \/ OpenSink
    \/ LoopHead
    \/ GetVideoInfo
    \/ DownloadVideo
    \/ TranscribeItem
    \/ CleanUp
    \/ WriteRow
    \/ WriteRowFails
    \/ Flush
    \/ FlushFails
    \/ CountFailed
    \/ Advance
    \/ Sleep
    \/ PrintSummary

SpecSinkFault == InitSinkFault /\ [][NextSinkFault]_vars

InitAgain ==
    /\ SinkFaultInit /\ AgainInit /\ EngineIdle /\ VideoIdle /\ FormatIdle
    /\ SaveIdle /\ CliIdle /\ ChannelIdle /\ TwiceIdle

NextAgain ==
    \/ ProcessPlaylist
    \/ ProcessPlaylistAgain
    \/ OpenSink
    \/ LoopHead
    \/ GetVideoInfo
    \/ DownloadVideo
    \/ TranscribeItem
    \/ CleanUp
    \/ WriteRow
    \/ Flush
    \/ CountFailed
    \/ Advance
    \/ Sleep
    \/ PrintSummary

SpecAgain == InitAgain /\ [][NextAgain]_vars

====
